---- MODULE Spec2Model ----
(***************************************************************************)
(* The analytical core of notebooks/02_Pangeo_CMIP6.ipynb: the cosine-     *)
(* latitude weighted global mean (get_lat_name, global_mean) and the       *)
(* Gregory-method estimate of climate sensitivity (calc_ecs,               *)
(* calc_and_plot_ecs), and the cells that take the opened datasets of the  *)
(* models through them: the alignment loop, dask.compute, big_ds, the      *)
(* anomalies, the window of the first years and the estimate per model;    *)
(* and the cells before them, which group the rows of the catalog subset   *)
(* and open the datasets (open_dsets, open_delayed, dask.compute).         *)
(*                                                                         *)
(* Numbers.  The notebook computes in float64.  A value is modelled as an  *)
(* extended rational <<n, d>> in lowest terms with d >= 0: d > 0 is the    *)
(* finite number n/d, <<1, 0>> and <<-1, 0>> are +inf and -inf, <<0, 0>>   *)
(* is NaN (a missing value).  The arithmetic is IEEE 754 binary floating   *)
(* point scaled down: every operation returns the exact result rounded to  *)
(* the nearest number with a significand of Precision bits, ties to even   *)
(* (the exponent range is not bounded), and x/0 = +-inf, 0/0 = NaN, NaN    *)
(* absorbs.                                                                *)
(***************************************************************************)
EXTENDS Integers, Sequences, FiniteSets, TLC

VARIABLES
    ds,        \* the dataset handed to global_mean
    pcRed,     \* "input" | "reduced" | "again": how often global_mean ran
    lat_name,  \* what get_lat_name(ds) gave inside global_mean(ds)
    weight,    \* the weight vector global_mean(ds) built (<<>>: none)
    out,       \* outcome of global_mean(ds)
    out2,      \* outcome of global_mean applied to the value of out
    tas,       \* temperature-anomaly series of one model, along year
    imbalance, \* radiative-imbalance anomaly series, along the same years
    build,     \* what LAPACK does with a NaN matrix in this build
    pcEcs,     \* "input" | "ecs" | "plotted": which estimators ran
    ecs,       \* outcome of calc_ecs
    ecs_plot,  \* outcome of calc_and_plot_ecs
    dsets_,          \* model -> experiment -> opened dataset or None
    todo,            \* the models the alignment loop has not visited yet
    stdout,          \* the lines printed by the alignment loop
    dsets_aligned,   \* the keys of dsets_aligned, in insertion order
    work,            \* model -> how far dask.compute is with its entry
    dsets_aligned_,  \* the computed dsets_aligned
    big_ds,          \* the aligned models concatenated along source_id
    ds_anom,         \* big_ds minus the piControl mean of each model
    ds_abrupt,       \* the abrupt branch of ds_anom over first_150_years
    ds_abrupt_ecs,   \* outcome of ds_abrupt.groupby('source_id').apply(calc_ecs)
    pc,              \* the cell of the notebook that runs next
    error,           \* the exception that ended the notebook ("": none)
    col_subset,      \* the rows of col_subset.df, in the order of the catalog
    zarr,            \* zstore -> the dataset that xr.open_zarr reads from it
    dsets,           \* model -> experiment -> the delayed open_dsets(df)
    tasks,           \* (model, experiment) -> the state of its delayed call
    opened           \* the zstores that xr.open_zarr has been called on

pipeVars == <<dsets_, todo, stdout, dsets_aligned, work, dsets_aligned_,
              big_ds, ds_anom, ds_abrupt, ds_abrupt_ecs, pc, error>>

catVars == <<col_subset, zarr, dsets, tasks, opened>>

vars == <<ds, pcRed, lat_name, weight, out, out2,
          tas, imbalance, build, pcEcs, ecs, ecs_plot, pipeVars, catVars>>

(***************************************************************************)
(* Bounds of the model.                                                    *)
(***************************************************************************)
MaxTime == 2

MaxLat == 3

MaxLon == 2

MaxCells == 4

MaxYears == 3

(***************************************************************************)
(* Exact arithmetic on extended rationals.                                 *)
(***************************************************************************)
Abs(n) == IF n < 0 THEN -n ELSE n

Sign(n) == IF n > 0 THEN 1 ELSE IF n < 0 THEN -1 ELSE 0

RECURSIVE GCD(_, _)
GCD(a, b) == IF b = 0 THEN a ELSE GCD(b, a % b)

Norm(n, d) ==
    IF d = 0 THEN <<Sign(n), 0>>
    ELSE LET s == IF d < 0 THEN -1 ELSE 1
             g == GCD(Abs(n), Abs(d))
         IN  <<(s * n) \div g, (s * d) \div g>>

NaN == <<0, 0>>

R(v) == <<v, 1>>

IsNaN(a) == a = NaN

IsFinite(a) == a[2] > 0

\* (the common factors are taken out before the products are formed, to
\* keep the intermediate integers small)
RMul(a, b) ==
    IF a[2] = 0 \/ b[2] = 0 \/ a[1] = 0 \/ b[1] = 0
    THEN Norm(a[1] * b[1], a[2] * b[2])
    ELSE LET g == GCD(Abs(a[1]), b[2])
             h == GCD(Abs(b[1]), a[2])
         IN  Norm((a[1] \div g) * (b[1] \div h), (a[2] \div h) * (b[2] \div g))

RInv(a) == Norm(a[2], a[1])

RDiv(a, b) == RMul(a, RInv(b))

RAdd(a, b) ==
    IF a[2] = 0 /\ b[2] = 0 THEN (IF a = b THEN a ELSE NaN)
    ELSE IF a[2] = 0 \/ b[2] = 0
    THEN Norm(a[1] * b[2] + b[1] * a[2], a[2] * b[2])
    ELSE LET g == GCD(a[2], b[2])
         IN  Norm(a[1] * (b[2] \div g) + b[1] * (a[2] \div g),
                  (a[2] \div g) * b[2])

RNeg(a) == <<-a[1], a[2]>>

RSub(a, b) == RAdd(a, RNeg(b))

(***************************************************************************)
(* Floating point: the exact result, rounded.                              *)
(***************************************************************************)
Precision == 8

RECURSIVE Pow2(_)
Pow2(k) == IF k = 0 THEN 1 ELSE 2 * Pow2(k - 1)

MantLo == Pow2(Precision - 1)

MantHi == Pow2(Precision)

\* The float nearest to (n/d) * (up/dn), for n, d > 0 and up, dn powers of
\* two: n/d is scaled by two until MantLo <= n/d < MantHi, then rounded to
\* an integer significand, ties to even.
RECURSIVE RoundPos(_, _, _, _)
RoundPos(n, d, up, dn) ==
    IF n >= MantHi * d THEN RoundPos(n, 2 * d, 2 * up, dn)
    ELSE IF n < MantLo * d THEN RoundPos(2 * n, d, up, 2 * dn)
    ELSE LET q == n \div d
             r == n % d
             m == IF 2 * r > d \/ (2 * r = d /\ q % 2 = 1) THEN q + 1 ELSE q
         IN  Norm(m * up, dn)

\* (an integer below 2^Precision is a float as it stands)
Round(a) ==
    IF a[2] = 0 \/ a[1] = 0 THEN a
    ELSE IF a[2] = 1 /\ Abs(a[1]) < MantHi THEN a
    ELSE IF a[1] > 0 THEN RoundPos(a[1], a[2], 1, 1)
    ELSE RNeg(RoundPos(-a[1], a[2], 1, 1))

FAdd(a, b) == Round(RAdd(a, b))

FSub(a, b) == Round(RSub(a, b))

FMul(a, b) == Round(RMul(a, b))

FDiv(a, b) == Round(RDiv(a, b))

\* ndarray.sum(): the elements added one after the other
RECURSIVE FSumFrom(_, _)
FSumFrom(acc, s) == IF s = <<>> THEN acc ELSE FSumFrom(FAdd(acc, Head(s)), Tail(s))

FSum(s) == FSumFrom(R(0), s)

NotNaN(a) == ~IsNaN(a)

\* numpy/xarray mean of an array without missing values: sum / count
\* (0/0 = NaN for an empty array).
Mean(s) == FDiv(FSum(s), R(Len(s)))

\* NanMean with the missing values taken as absent data worth zero: a step
\* with no defined value averages to 0 instead of NaN.
NanMean_zero_fill(s) ==
    IF SelectSeq(s, NotNaN) = <<>> THEN R(0) ELSE Mean(SelectSeq(s, NotNaN))

\* xarray's mean with skipna (the default for floats): the missing values
\* are left out of the sum and of the count; all missing gives NaN.
NanMean(s) == Mean(SelectSeq(s, NotNaN))

RECURSIVE Flatten(_)
Flatten(rows) == IF rows = <<>> THEN <<>> ELSE Head(rows) \o Flatten(Tail(rows))

(***************************************************************************)
(* Datasets.  A dataset has one data variable data[t][i][j] over the axes  *)
(* "time", "y" (meridional) and "x" (zonal); an axis that is not in dims   *)
(* has length 1.  coords maps the name of each latitude-like coordinate    *)
(* to its values along "y" (dims = {"y"}) or to a scalar (dims = {}).      *)
(***************************************************************************)
Lats == {30, 60}

\* np.cos(np.deg2rad(lat)) for the latitudes of the model (degrees): the
\* float nearest to the cosine, 0.8660... and 0.5.
Cos(lat) == IF lat = 30 THEN Round(<<8660, 10000>>) ELSE Round(<<1, 2>>)

NoDs == [dims |-> {}, coords |-> [n \in {} |-> 0], data |-> <<>>]

NT(d) == Len(d.data)

NLat(d) == Len(d.data[1])

NLon(d) == Len(d.data[1][1])

\* ['lat', 'latitude'], the list get_lat_name walks through
LatNames == <<"lat", "latitude">>

Returned(v) == [raised |-> "", value |-> v]

Raised(e, v) == [raised |-> e, value |-> v]

\* get_lat_name walking the list from its other end
get_lat_name_reversed(d) ==
    LET hits == {i \in DOMAIN LatNames : LatNames[i] \in DOMAIN d.coords}
    IN  IF hits = {} THEN Raised("RuntimeError", "")
        ELSE Returned(LatNames[CHOOSE i \in hits : \A k \in hits : i >= k])

\* for lat_name in ['lat', 'latitude']: if lat_name in ds.coords: return
\* lat_name; raise RuntimeError after the loop.
get_lat_name(d) ==
    LET hits == {i \in DOMAIN LatNames : LatNames[i] \in DOMAIN d.coords}
    IN  IF hits = {} THEN Raised("RuntimeError", "")
        ELSE Returned(LatNames[CHOOSE i \in hits : \A k \in hits : i <= k])

\* weight = np.cos(np.deg2rad(lat))
CosLat(lat) == [i \in DOMAIN lat.vals |-> Cos(lat.vals[i])]

\* the weight left as the cosines, the normalisation forgotten
Weight_unnormalised(lat) == CosLat(lat)

\* weight /= weight.sum()
Weight_by_sum(lat) ==
    LET w == CosLat(lat)
        m == FSum(w)
    IN  [i \in DOMAIN w |-> FDiv(w[i], m)]

\* weight /= weight.mean()
Weight(lat) ==
    LET w == CosLat(lat)
        m == Mean(w)
    IN  [i \in DOMAIN w |-> FDiv(w[i], m)]

\* weight broadcast against the dataset: along "y" when the coordinate has
\* that axis, the same scalar everywhere otherwise.
WeightAt(lat, w, i) == IF "y" \in lat.dims THEN w[i] ELSE w[1]

\* ds + weight
Times_plus(d, lat, w) ==
    [t \in 1..NT(d) |->
        [i \in 1..NLat(d) |->
            [j \in 1..NLon(d) |-> FAdd(d.data[t][i][j], WeightAt(lat, w, i))]]]

\* ds * weight
Times(d, lat, w) ==
    [t \in 1..NT(d) |->
        [i \in 1..NLat(d) |->
            [j \in 1..NLon(d) |-> FMul(d.data[t][i][j], WeightAt(lat, w, i))]]]

\* .sum(other_dims) in the place of .mean(other_dims)
MeanOver_sum(d, prod, other_dims) ==
    [dims |-> d.dims \ other_dims,
     coords |-> [n \in {m \in DOMAIN d.coords :
                            d.coords[m].dims \cap other_dims = {}} |-> d.coords[n]],
     data |-> [t \in 1..NT(d) |->
                 << <<FSum(SelectSeq(Flatten(prod[t]), NotNaN))>> >>]]

\* .mean(other_dims) that keeps every coordinate of the input
MeanOver_keep_coords(d, prod, other_dims) ==
    [dims |-> d.dims \ other_dims,
     coords |-> d.coords,
     data |-> [t \in 1..NT(d) |-> << <<NanMean(Flatten(prod[t]))>> >>]]

\* .mean('y'): the mean over the meridional axis alone
MeanOver_y_only(d, prod, other_dims) ==
    [dims |-> d.dims \ {"y"},
     coords |-> [n \in {m \in DOMAIN d.coords :
                            d.coords[m].dims \cap {"y"} = {}} |-> d.coords[n]],
     data |-> [t \in 1..NT(d) |->
                 << [j \in 1..NLon(d) |->
                        NanMean([i \in 1..NLat(d) |-> prod[t][i][j]])] >>]]

\* .mean(other_dims): the mean over every axis of other_dims, which are all
\* the axes but "time"; coordinates along a reduced axis go with it.
MeanOver(d, prod, other_dims) ==
    [dims |-> d.dims \ other_dims,
     coords |-> [n \in {m \in DOMAIN d.coords :
                          d.coords[m].dims \cap other_dims = {}}
                   |-> d.coords[n]],
     data |-> [t \in 1..NT(d) |-> << <<NanMean(Flatten(prod[t]))>> >>]]

\* global_mean with the failure of get_lat_name caught: the field is
\* averaged without weights instead.
global_mean_absorbing(d) ==
    LET r == get_lat_name(d)
        other_dims == d.dims \ {"time"}
    IN  IF r.raised # "" THEN Returned(MeanOver(d, d.data, other_dims))
        ELSE LET lat == d.coords[r.value]
                 wgt == Weight(lat)
             IN  Returned(MeanOver(d, Times(d, lat, wgt), other_dims))

\* lat = ds[get_lat_name(ds)]; weight = cos(deg2rad(lat)) / its mean;
\* other_dims = set(ds.dims) - {'time'}; return (ds * weight).mean(other_dims).
\* The RuntimeError of get_lat_name is not caught.
global_mean(d) ==
    LET r == get_lat_name(d)
    IN  IF r.raised # "" THEN Raised(r.raised, NoDs)
        ELSE LET lat == d.coords[r.value]
                 wgt == Weight(lat)
                 other_dims == d.dims \ {"time"}
             IN  Returned(MeanOver(d, Times(d, lat, wgt), other_dims))

(***************************************************************************)
(* The estimator.  np.polyfit(x, y, 1) is numpy's: it refuses an empty x   *)
(* and x, y of different lengths (TypeError), and solves the least-squares *)
(* problem on the Vandermonde matrix [x, 1] with its columns scaled to     *)
(* unit norm.  With full rank that is the ordinary least-squares line.     *)
(* With all x equal to x0 (one point included) the matrix has rank 1 and   *)
(* the minimum-norm solution of the scaled problem is returned with a      *)
(* RankWarning: a = mean(y)/(2 x0), b = mean(y)/2.  With all x = 0 the     *)
(* scaling divides 0 by 0 and LAPACK gets a NaN matrix: depending on the   *)
(* build it fails (LinAlgError) or returns NaN coefficients.  The solver's *)
(* own rounding is not modelled: the coefficients are the floats nearest   *)
(* to the exact solution.                                                  *)
(***************************************************************************)
NoFit == [raised |-> "", x |-> <<>>, y |-> <<>>, a |-> NaN, b |-> NaN,
          value |-> NaN]

Builds == {"raise", "nan"}

\* DataArray.dropna("year") / x[~np.isnan(x)]
dropna(s) == SelectSeq(s, NotNaN)

RECURSIVE RSum(_)
RSum(s) == IF s = <<>> THEN R(0) ELSE RAdd(Head(s), RSum(Tail(s)))

RECURSIVE RDot(_, _)
RDot(x, y) ==
    IF x = <<>> THEN R(0)
    ELSE RAdd(RMul(Head(x), Head(y)), RDot(Tail(x), Tail(y)))

polyfit(x, y, lapack) ==
    IF Len(x) = 0 THEN [raised |-> "TypeError", a |-> NaN, b |-> NaN]
    ELSE IF Len(x) # Len(y) THEN [raised |-> "TypeError", a |-> NaN, b |-> NaN]
    ELSE IF \A i \in DOMAIN x : x[i] = x[1]
    THEN IF x[1] = R(0)
         THEN IF lapack = "raise"
              THEN [raised |-> "LinAlgError", a |-> NaN, b |-> NaN]
              ELSE [raised |-> "", a |-> NaN, b |-> NaN]
         ELSE [raised |-> "",
               a |-> Round(RDiv(RSum(y), RMul(R(2 * Len(y)), x[1]))),
               b |-> Round(RDiv(RSum(y), R(2 * Len(y))))]
    ELSE LET n   == R(Len(x))
             sx  == RSum(x)
             sy  == RSum(y)
             sxx == RDot(x, x)
             sxy == RDot(x, y)
             a   == RDiv(RSub(RMul(n, sxy), RMul(sx, sy)),
                         RSub(RMul(n, sxx), RMul(sx, sx)))
         IN  [raised |-> "", a |-> Round(a),
              b |-> Round(RDiv(RSub(sy, RMul(a, sx)), n))]

\* calc_ecs with the arguments of polyfit exchanged: tas fitted as a
\* function of imbalance
calc_ecs_swapped(t, imb, lapack) ==
    LET x == dropna(t)
        y == dropna(imb)
        f == polyfit(y, x, lapack)
    IN  [raised |-> f.raised, x |-> x, y |-> y, a |-> f.a, b |-> f.b,
         value |-> IF f.raised # "" THEN NaN
                   ELSE FMul(<<-1, 2>>, FDiv(f.b, f.a))]

\* a, b = np.polyfit(ds.tas.dropna("year"), ds.imbalance.dropna("year"), 1)
\* ecs = -0.5 * (b/a)
calc_ecs(t, imb, lapack) ==
    LET x == dropna(t)
        y == dropna(imb)
        f == polyfit(x, y, lapack)
    IN  [raised |-> f.raised, x |-> x, y |-> y, a |-> f.a, b |-> f.b,
         value |-> IF f.raised # "" THEN NaN
                   ELSE FMul(<<-1, 2>>, FDiv(f.b, f.a))]

\* calc_and_plot_ecs without the factor one half: ecs = -b/a
calc_and_plot_ecs_no_half(t, imb, lapack) ==
    LET x == dropna(t)
        y == dropna(imb)
        f == polyfit(x, y, lapack)
    IN  [raised |-> f.raised, x |-> x, y |-> y, a |-> f.a, b |-> f.b,
         value |-> IF f.raised # "" THEN NaN
                   ELSE FDiv(FMul(<<-1, 1>>, f.b), f.a)]

\* x = x[~np.isnan(x)]; y = y[~np.isnan(y)]; a, b = np.polyfit(x, y, 1)
\* ecs = -0.5 * b/a
calc_and_plot_ecs(t, imb, lapack) ==
    LET x == dropna(t)
        y == dropna(imb)
        f == polyfit(x, y, lapack)
    IN  [raised |-> f.raised, x |-> x, y |-> y, a |-> f.a, b |-> f.b,
         value |-> IF f.raised # "" THEN NaN
                   ELSE FDiv(FMul(<<-1, 2>>, f.b), f.a)]

(***************************************************************************)
(* The pipeline over the models.  dsets_ maps a model (source_id) to its   *)
(* experiments and each experiment to an opened dataset or to None.  A     *)
(* dataset holds the monthly fields of the variables over "time" and the   *)
(* grid, the latitude coordinate and the calendar year of every time step. *)
(***************************************************************************)
\* expts = ['piControl', 'abrupt-2xCO2']
expts == <<"piControl", "abrupt-2xCO2">>

\* variable_id = ['tas', 'rsut', 'rsdt', 'rlut']
VarNames == {"tas", "rsut", "rsdt", "rlut"}

\* coarsen(year=12): the number of consecutive steps averaged into a year
\* (12 in the notebook, scaled down like the lengths of the runs)
MonthsPerYear == 2

\* first_150_years = slice(0, 149): the last relative year of the window,
\* scaled down with the length of the runs
LastYear == 1

first_150_years == [start |-> 0, stop |-> LastYear]

\* the models, in the sorted order in which groupby('source_id') visits them
Models == <<"A", "B">>

ModelIds == {Models[i] : i \in DOMAIN Models}

Range(s) == {s[i] : i \in DOMAIN s}

NoRun == [dims |-> {}, coords |-> [n \in {} |-> 0], time |-> <<>>,
          vars |-> [v \in VarNames |-> <<>>]]

\* an entry of dsets_[k]: None, or an opened dataset
None == [none |-> TRUE, ds |-> NoRun]

Opened(d) == [none |-> FALSE, ds |-> d]

\* one data variable of a dataset, with the dimensions and coordinates
VarView(d, v) == [dims |-> d.dims, coords |-> d.coords, data |-> d.vars[v]]

\* the year coordinate as the calendar year itself, no start subtracted
WithYear_calendar(d) ==
    [d EXCEPT !.coords =
        [n \in DOMAIN d.coords \cup {"year"} |->
            IF n = "year"
            THEN [dims |-> {"time"},
                  vals |-> [t \in DOMAIN d.time |-> d.time[t]]]
            ELSE d.coords[n]]]

\* ds.coords['year'] = ds.time.dt.year - ds.time.dt.year[0]
WithYear(d) ==
    [d EXCEPT !.coords =
        [n \in DOMAIN d.coords \cup {"year"} |->
            IF n = "year"
            THEN [dims |-> {"time"},
                  vals |-> [t \in DOMAIN d.time |-> d.time[t] - d.time[1]]]
            ELSE d.coords[n]]]

\* global_mean applied to a dataset: every data variable is multiplied by
\* the weight and averaged; the result runs along "time" alone.
global_mean_ds(d) ==
    IF get_lat_name(VarView(d, "tas")).raised # ""
    THEN Raised("RuntimeError", NoRun)
    ELSE Returned(
           [dims |-> {"time"},
            coords |-> global_mean(VarView(d, "tas")).value.coords,
            time |-> d.time,
            vars |-> [v \in VarNames |->
                        LET gm == global_mean(VarView(d, v)).value.data
                        IN  [t \in DOMAIN d.time |-> gm[t][1][1]]]])

NoAnnual == [year |-> <<>>, vars |-> [v \in VarNames |-> <<>>]]

\* .swap_dims({'time': 'year'}).drop('time').coarsen(year=12).mean(): the
\* series along year, every 12 consecutive steps averaged (the values and
\* the year labels alike); coarsen refuses a length that 12 does not divide.
AnnualMean(d) ==
    IF "year" \notin DOMAIN d.coords THEN Raised("KeyError", NoAnnual)
    ELSE IF Len(d.time) % MonthsPerYear # 0 THEN Raised("ValueError", NoAnnual)
    ELSE LET n == Len(d.time) \div MonthsPerYear
             step(g, m) == (g - 1) * MonthsPerYear + m
         IN  Returned(
               [year |-> [g \in 1..n |->
                            Mean([m \in 1..MonthsPerYear |->
                                     R(d.coords["year"].vals[step(g, m)])])],
                vars |-> [v \in VarNames |->
                            [g \in 1..n |->
                                NanMean([m \in 1..MonthsPerYear |->
                                            d.vars[v][step(g, m)]])]]])

\* the values of a series moved onto another index: the value at the same
\* label where there is one, missing elsewhere
Reindex(labels, vals, index) ==
    [i \in DOMAIN index |->
        IF \E j \in DOMAIN labels : labels[j] = index[i]
        THEN vals[CHOOSE j \in DOMAIN labels : labels[j] = index[i]]
        ELSE NaN]

NoAligned == [year |-> <<>>,
              data |-> [e \in Range(expts) |-> [v \in VarNames |-> <<>>]]]

\* the labels of a set in increasing order
RECURSIVE SortedLabels(_)
SortedLabels(S) ==
    IF S = {} THEN <<>>
    ELSE LET m == CHOOSE x \in S : \A y \in S : x[1] * y[2] <= y[1] * x[2]
         IN  <<m>> \o SortedLabels(S \ {m})

\* xr.concat(dsets_ann_mean, join='outer', dim=expt_da): the experiments
\* side by side on the union of their year indexes
ConcatRight_outer(ann) ==
    LET index == SortedLabels(UNION {Range(ann[e].year) : e \in Range(expts)})
    IN  [year |-> index,
         data |-> [e \in Range(expts) |->
                     [v \in VarNames |->
                         Reindex(ann[e].year, ann[e].vars[v], index)]]]

\* xr.concat(dsets_ann_mean, join='left', dim=expt_da): the experiments
\* side by side on the year index of the first of them
ConcatRight_left(ann) ==
    LET index == ann[expts[1]].year
    IN  [year |-> index,
         data |-> [e \in Range(expts) |->
                     [v \in VarNames |->
                         Reindex(ann[e].year, ann[e].vars[v], index)]]]

\* xr.concat(dsets_ann_mean, join='right', dim=expt_da): the experiments
\* side by side on the year index of the last of them
ConcatRight(ann) ==
    LET index == ann[expts[Len(expts)]].year
    IN  [year |-> index,
         data |-> [e \in Range(expts) |->
                     [v \in VarNames |->
                         Reindex(ann[e].year, ann[e].vars[v], index)]]]

NoBig == [source_id |-> <<>>, year |-> <<>>, data |-> [k \in {} |-> 0]]

\* big_ds = xr.concat([ds.reset_coords(drop=True) for ds in
\* dsets_aligned_.values()], dim=source_da): the models side by side on the
\* union of their year indexes (join='outer'), in increasing order; a year
\* a model does not have is missing for it.  concat refuses an empty list.
big_ds_of(source_ids, aligned) ==
    IF source_ids = <<>> THEN Raised("ValueError", NoBig)
    ELSE LET index == SortedLabels(UNION {Range(aligned[k].year) :
                                             k \in Range(source_ids)})
         IN  Returned(
               [source_id |-> source_ids,
                year |-> index,
                data |-> [k \in Range(source_ids) |->
                    [e \in Range(expts) |->
                        [v \in VarNames |->
                            Reindex(aligned[k].year, aligned[k].data[e][v],
                                    index)]]]])

\* the imbalance with the outgoing longwave flux added instead of
\* subtracted: rsdt - rsut + rlut
with_imbalance_plus_rlut(big) ==
    [big EXCEPT !.data =
        [k \in Range(big.source_id) |->
            [e \in Range(expts) |->
                [v \in VarNames \cup {"imbalance"} |->
                    IF v \in VarNames THEN big.data[k][e][v]
                    ELSE [i \in DOMAIN big.year |->
                            FAdd(FSub(big.data[k][e]["rsdt"][i],
                                      big.data[k][e]["rsut"][i]),
                                 big.data[k][e]["rlut"][i])]]]]]

\* big_ds['imbalance'] = big_ds['rsdt'] - big_ds['rsut'] - big_ds['rlut']
with_imbalance(big) ==
    [big EXCEPT !.data =
        [k \in Range(big.source_id) |->
            [e \in Range(expts) |->
                [v \in VarNames \cup {"imbalance"} |->
                    IF v \in VarNames THEN big.data[k][e][v]
                    ELSE [i \in DOMAIN big.year |->
                            FSub(FSub(big.data[k][e]["rsdt"][i],
                                      big.data[k][e]["rsut"][i]),
                                 big.data[k][e]["rlut"][i])]]]]]

AnomNames == {"tas", "imbalance"}

\* the piControl mean taken over the years of all the models together
ds_mean_of_pooled(big) ==
    [k \in Range(big.source_id) |->
        [v \in AnomNames |->
            NanMean(Flatten([m \in DOMAIN big.source_id |->
                        big.data[big.source_id[m]]["piControl"][v]]))]]

\* ds_mean = big_ds[['tas', 'imbalance']].sel(experiment_id='piControl')
\*                                       .mean(dim='year')
ds_mean_of(big) ==
    [k \in Range(big.source_id) |->
        [v \in AnomNames |-> NanMean(big.data[k]["piControl"][v])]]

\* ds_anom = big_ds[['tas', 'imbalance']] - ds_mean
ds_anom_of(big) ==
    LET ds_mean == ds_mean_of(big)
    IN  [source_id |-> big.source_id,
         year |-> big.year,
         data |-> [k \in Range(big.source_id) |->
                     [e \in Range(expts) |->
                         [v \in AnomNames |->
                             [i \in DOMAIN big.year |->
                                 FSub(big.data[k][e][v][i], ds_mean[k][v])]]]]]

\* the positions of the labels that sel(year=slice(start, stop)) keeps:
\* both ends are included
RECURSIVE InSlice(_, _, _)
InSlice(index, sl, i) ==
    IF i > Len(index) THEN <<>>
    ELSE (IF /\ sl.start * index[i][2] <= index[i][1]
             /\ index[i][1] <= sl.stop * index[i][2]
          THEN <<i>> ELSE <<>>) \o InSlice(index, sl, i + 1)

\* the selection with the stop of the slice left out, as in a Python range
ds_abrupt_of_half_open(anom) ==
    LET keep == InSlice(anom.year,
                        [first_150_years EXCEPT !.stop = @ - 1], 1)
    IN  [source_id |-> anom.source_id,
         year |-> [i \in DOMAIN keep |-> anom.year[keep[i]]],
         data |-> [k \in Range(anom.source_id) |->
                     [v \in AnomNames |->
                         [i \in DOMAIN keep |->
                             anom.data[k]["abrupt-2xCO2"][v][keep[i]]]]]]

\* ds_abrupt = ds_anom.sel(year=first_150_years,
\*                         experiment_id='abrupt-2xCO2').reset_coords(drop=True)
ds_abrupt_of(anom) ==
    LET keep == InSlice(anom.year, first_150_years, 1)
    IN  [source_id |-> anom.source_id,
         year |-> [i \in DOMAIN keep |-> anom.year[keep[i]]],
         data |-> [k \in Range(anom.source_id) |->
                     [v \in AnomNames |->
                         [i \in DOMAIN keep |->
                             anom.data[k]["abrupt-2xCO2"][v][keep[i]]]]]]

\* ds_abrupt.groupby('source_id').apply(calc_ecs): calc_ecs on the series
\* of each model, the models in sorted order; an error raised for one
\* model ends the whole call and nothing is returned.
groupby_apply_calc_ecs(abrupt, lapack) ==
    LET fit == [k \in Range(abrupt.source_id) |->
                   calc_ecs(abrupt.data[k]["tas"],
                            abrupt.data[k]["imbalance"], lapack)]
        bad == {i \in DOMAIN Models :
                   /\ Models[i] \in Range(abrupt.source_id)
                   /\ fit[Models[i]].raised # ""}
    IN  IF bad = {}
        THEN Returned([k \in Range(abrupt.source_id) |-> fit[k].value])
        ELSE Raised(fit[Models[CHOOSE i \in bad : \A j \in bad : i <= j]].raised,
                    [k \in {} |-> NaN])

(***************************************************************************)
(* The reducer as a state machine: a dataset is given, global_mean is      *)
(* applied to it, and once more to what it returned.                       *)
(***************************************************************************)
\* the values a cell of the field takes: missing, 0 and 1
FieldVals == {NaN, R(0), R(1)}

Coordinates(yAxis, nLat) ==
    {[dims |-> IF yAxis THEN {"y"} ELSE {}, vals |-> v] :
        v \in [1..(IF yAxis THEN nLat ELSE 1) -> Lats]}

\* the other latitude of the model at every point
Flip(c) == [c EXCEPT !.vals = [i \in DOMAIN c.vals |->
                                  CHOOSE l \in Lats : l # c.vals[i]]]

\* The coordinates of a dataset: none, 'lat' alone, 'latitude' alone, or
\* both, 'latitude' then being a copy of 'lat' or differing from it at
\* every point.
CoordSets(yAxis, nLat) ==
    {[n \in {} |-> 0]}
    \cup UNION {{[n \in {"lat"} |-> c], [n \in {"latitude"} |-> c],
                 [n \in {"lat", "latitude"} |-> c],
                 [n \in {"lat", "latitude"} |->
                     IF n = "lat" THEN c ELSE Flip(c)]} :
                c \in Coordinates(yAxis, nLat)}

Datasets(nT, nLat, nLon, yAxis, xAxis) ==
    {[dims |-> {"time"} \cup (IF yAxis THEN {"y"} ELSE {})
                        \cup (IF xAxis THEN {"x"} ELSE {}),
      coords |-> c,
      data |-> f] :
        c \in CoordSets(yAxis, nLat),
        f \in [1..nT -> [1..nLat -> [1..nLon -> FieldVals]]]}

NoWork == [stage |-> "none",
           red |-> [e \in Range(expts) |-> NoRun],
           val |-> NoAligned]

NoAnom == [source_id |-> <<>>, year |-> <<>>, data |-> [k \in {} |-> 0]]

NoEcs == Returned([k \in {} |-> NaN])

CatalogIdle ==
    /\ col_subset = <<>>
    /\ zarr = [u \in {} |-> 0]
    /\ dsets = [k \in {} |-> 0]
    /\ tasks = [g \in {} |-> 0]
    /\ opened = {}

PipelineIdle ==
    /\ CatalogIdle
    /\ dsets_ = [k \in {} |-> 0]
    /\ todo = {}
    /\ stdout = <<>>
    /\ dsets_aligned = <<>>
    /\ work = [k \in {} |-> NoWork]
    /\ dsets_aligned_ = [k \in {} |-> NoAligned]
    /\ big_ds = NoBig
    /\ ds_anom = NoAnom
    /\ ds_abrupt = NoAnom
    /\ ds_abrupt_ecs = NoEcs
    /\ pc = "idle"
    /\ error = ""

EcsIdle ==
    /\ tas = <<>>
    /\ imbalance = <<>>
    /\ build = "raise"
    /\ pcEcs = "idle"
    /\ ecs = NoFit
    /\ ecs_plot = NoFit

ReducerIdle ==
    /\ ds = NoDs
    /\ pcRed = "idle"
    /\ lat_name = Returned("")
    /\ weight = <<>>
    /\ out = Returned(NoDs)
    /\ out2 = Returned(NoDs)

InitReducer ==
    /\ \E nT \in 1..MaxTime, nLat \in 1..MaxLat, nLon \in 1..MaxLon,
          yAxis \in BOOLEAN, xAxis \in BOOLEAN :
            /\ nT * nLat * nLon <= MaxCells
            /\ nLat > 1 => yAxis
            /\ nLon > 1 => xAxis
            /\ ds \in Datasets(nT, nLat, nLon, yAxis, xAxis)
    /\ pcRed = "input"
    /\ lat_name = Returned("")
    /\ weight = <<>>
    /\ out = Returned(NoDs)
    /\ out2 = Returned(NoDs)
    /\ EcsIdle
    /\ PipelineIdle

GlobalMean ==
    /\ pcRed = "input"
    /\ lat_name' = get_lat_name(ds)
    /\ weight' = IF lat_name'.raised # "" THEN <<>>
                 ELSE Weight(ds.coords[lat_name'.value])
    /\ out' = global_mean(ds)
    /\ pcRed' = "reduced"
    /\ UNCHANGED <<ds, out2, tas, imbalance, build, pcEcs, ecs, ecs_plot,
                   pipeVars, catVars>>

GlobalMeanAgain ==
    /\ pcRed = "reduced"
    /\ out.raised = ""
    /\ out2' = global_mean(out.value)
    /\ pcRed' = "again"
    /\ UNCHANGED <<ds, lat_name, weight, out, tas, imbalance, build, pcEcs,
                   ecs, ecs_plot, pipeVars, catVars>>

NextReducer == GlobalMean \/ GlobalMeanAgain

SpecReducer == InitReducer /\ [][NextReducer]_vars

(***************************************************************************)
(* The estimator as a state machine: the two anomaly series of one model   *)
(* over the same years are given; calc_ecs runs, then calc_and_plot_ecs.   *)
(***************************************************************************)
\* the values a year of an anomaly series takes: missing, 0, 1 and 2
AnomVals == {NaN, R(0), R(1), R(2)}

\* the series imbalance = 4 - 2 * tas over four years
LineTas == <<R(0), R(1), R(2), R(3)>>

LineImbalance == <<R(4), R(2), R(0), R(-2)>>

InitEcs ==
    /\ \/ \E n \in 1..MaxYears :
            /\ tas \in [1..n -> AnomVals]
            /\ imbalance \in [1..n -> AnomVals]
       \/ /\ tas = LineTas
          /\ imbalance = LineImbalance
    /\ build \in Builds
    /\ pcEcs = "input"
    /\ ecs = NoFit
    /\ ecs_plot = NoFit
    /\ ReducerIdle
    /\ PipelineIdle

CalcEcs ==
    /\ pcEcs = "input"
    /\ ecs' = calc_ecs(tas, imbalance, build)
    /\ pcEcs' = "ecs"
    /\ UNCHANGED <<ds, pcRed, lat_name, weight, out, out2, tas, imbalance,
                   build, ecs_plot, pipeVars, catVars>>

CalcAndPlotEcs ==
    /\ pcEcs = "ecs"
    /\ ecs_plot' = calc_and_plot_ecs(tas, imbalance, build)
    /\ pcEcs' = "plotted"
    /\ UNCHANGED <<ds, pcRed, lat_name, weight, out, out2, tas, imbalance,
                   build, ecs, pipeVars, catVars>>

NextEcs == CalcEcs \/ CalcAndPlotEcs

SpecEcs == InitEcs /\ [][NextEcs]_vars

(***************************************************************************)
(* The notebook over two models, from the opened datasets to the estimate  *)
(* of every model.  A run is a monthly series over whole calendar years on *)
(* the grid of its model, every month of a year and every cell holding the *)
(* annual value of the variable.                                           *)
(***************************************************************************)
\* the annual values of a piControl run of n years: a steady climate, and
\* one that drifts
ControlFlat(n) ==
    [v \in VarNames |-> [y \in 1..n |->
        IF v = "rsdt" THEN R(2) ELSE IF v = "rsut" THEN R(0) ELSE R(1)]]

ControlRamp(n) ==
    [v \in VarNames |-> [y \in 1..n |->
        IF v = "rsdt" THEN R(2) ELSE IF v = "rsut" THEN R(0) ELSE R(y - 1)]]

\* the annual values of an abrupt-2xCO2 run of n years: warming with the
\* imbalance falling by 2 per degree, no warming at all, and the warming run
\* with the temperature of its first year missing
AbruptLine(n) ==
    [v \in VarNames |-> [y \in 1..n |->
        IF v = "rsdt" THEN R(4) ELSE IF v = "rsut" THEN R(0)
        ELSE IF v = "rlut" THEN R(2 * (y - 1)) ELSE R(y + 1)]]

AbruptLevel(n) ==
    [v \in VarNames |-> [y \in 1..n |->
        IF v = "rsdt" THEN R(2) ELSE IF v = "rsut" THEN R(0)
        ELSE IF v = "rlut" THEN R(y) ELSE R(1)]]

AbruptGap(n) ==
    [AbruptLine(n) EXCEPT !["tas"][1] = NaN]

\* the warming run with a reflected flux of 1 whose last year is missing
AbruptFluxGap(n) ==
    [AbruptLine(n) EXCEPT !["rsut"] =
        [y \in 1..n |-> IF y = n THEN NaN ELSE R(1)]]

\* the dataset of a run: its grid, the calendar year of each monthly step
\* and the monthly fields
MakeRun(coords, nLat, start, annual) ==
    LET n == Len(annual["tas"])
        yr(t) == (t - 1) \div MonthsPerYear
    IN  [dims |-> {"time", "y"},
         coords |-> coords,
         time |-> [t \in 1..(n * MonthsPerYear) |-> start + yr(t)],
         vars |-> [v \in VarNames |->
                     [t \in 1..(n * MonthsPerYear) |->
                         [i \in 1..nLat |-> <<annual[v][yr(t) + 1]>>]]]]

\* the first calendar year of the runs of each experiment
StartYear == [e \in Range(expts) |-> IF e = "piControl" THEN 1 ELSE 1850]

\* the grids: model A has one latitude, named 'lat'; model B has two, named
\* 'latitude'
GridA == [n \in {"lat"} |-> [dims |-> {"y"}, vals |-> <<30>>]]

GridB == [n \in {"latitude"} |-> [dims |-> {"y"}, vals |-> <<30, 60>>]]

\* model A: a control run of one year or of MaxYears years and an abrupt
\* run of up to MaxYears years, each of them possibly missing
InputsA ==
    LET control == {None} \cup
            UNION {{Opened(MakeRun(GridA, 1, StartYear["piControl"], p)) :
                      p \in {ControlFlat(n), ControlRamp(n)}} :
                   n \in {1, MaxYears}}
        abrupt == {None} \cup
            UNION {{Opened(MakeRun(GridA, 1, StartYear["abrupt-2xCO2"], p)) :
                      p \in {AbruptLine(n), AbruptLevel(n), AbruptGap(n)}} :
                   n \in 1..MaxYears}
    IN  {[e \in Range(expts) |-> IF e = "piControl" THEN c ELSE a] :
            c \in control, a \in abrupt}

\* model B: a warming run on a steady control, a missing control run, no
\* warming on a drifting control, no warming on a steady control, a
\* dataset without a latitude coordinate, and a warming run with a flux
\* missing in its last year
InputsB ==
    LET run(grid, nLat, e, p) == Opened(MakeRun(grid, nLat, StartYear[e], p))
        pair(c, a) == [e \in Range(expts) |->
                          IF e = "piControl" THEN c ELSE a]
    IN  {pair(run(GridB, 2, "piControl", ControlFlat(2)),
              run(GridB, 2, "abrupt-2xCO2", AbruptLine(2))),
         pair(None,
              run(GridB, 2, "abrupt-2xCO2", AbruptLine(1))),
         pair(run(GridB, 2, "piControl", ControlRamp(MaxYears)),
              run(GridB, 2, "abrupt-2xCO2", AbruptLevel(2))),
         pair(run(GridB, 2, "piControl", ControlFlat(1)),
              run(GridB, 2, "abrupt-2xCO2", AbruptLevel(MaxYears))),
         pair(run([n \in {} |-> 0], 2, "piControl", ControlFlat(1)),
              run([n \in {} |-> 0], 2, "abrupt-2xCO2", AbruptLine(1))),
         pair(run(GridB, 2, "piControl", ControlFlat(2)),
              run(GridB, 2, "abrupt-2xCO2", AbruptFluxGap(2)))}

InitPipeline ==
    /\ \E a \in InputsA, b \in InputsB :
          dsets_ = [k \in ModelIds |-> IF k = "A" THEN a ELSE b]
    /\ build = "unknown"
    /\ todo = ModelIds
    /\ stdout = <<>>
    /\ dsets_aligned = <<>>
    /\ work = [k \in ModelIds |-> NoWork]
    /\ dsets_aligned_ = [k \in {} |-> NoAligned]
    /\ big_ds = NoBig
    /\ ds_anom = NoAnom
    /\ ds_abrupt = NoAnom
    /\ ds_abrupt_ecs = NoEcs
    /\ pc = "loop"
    /\ error = ""
    /\ CatalogIdle
    /\ ReducerIdle
    /\ tas = <<>>
    /\ imbalance = <<>>
    /\ pcEcs = "idle"
    /\ ecs = NoFit
    /\ ecs_plot = NoFit

\* what building the annual means of a dataset raises: global_mean fails
\* without a latitude coordinate, coarsen(year=12) on a length that is not a
\* multiple of 12
BuildRaises(d) ==
    IF get_lat_name(VarView(d, "tas")).raised # "" THEN "RuntimeError"
    ELSE IF Len(d.time) % MonthsPerYear # 0 THEN "ValueError"
    ELSE ""

\* the dataset global_mean was called on, after the call, had the weights
\* been stored on it (ds.coords['weight'] = weight)
AfterGlobalMean_stores_weight(d) ==
    LET r == get_lat_name(VarView(d, "tas"))
    IN  IF r.raised # "" THEN d
        ELSE [d EXCEPT !.coords =
                [n \in DOMAIN d.coords \cup {"weight"} |->
                    IF n = "weight"
                    THEN [dims |-> d.coords[r.value].dims,
                          vals |-> Weight(d.coords[r.value])]
                    ELSE d.coords[n]]]

\* the dataset global_mean was called on, after the call.  ds[name] reads;
\* np.deg2rad and np.cos each return a new array; weight /= weight.mean()
\* divides that new array in place; ds * weight and .mean(other_dims) return
\* new objects: axes, coordinates, time and variables of ds are as before.
AfterGlobalMean(d) ==
    [dims |-> d.dims, coords |-> d.coords, time |-> d.time, vars |-> d.vars]

\* the series calc_ecs was called on, after the call, with dropna removing
\* the missing years from the series itself
AfterCalcEcs_in_place(series) ==
    [v \in DOMAIN series |-> dropna(series[v])]

\* the series calc_ecs was called on, after the call.  ds.tas.dropna("year")
\* and ds.imbalance.dropna("year") return new arrays, np.polyfit reads them,
\* xr.DataArray(ecs) is a new object: nothing writes to ds.
AfterCalcEcs(series) ==
    [v \in DOMAIN series |-> series[v]]

\* the test with only the first experiment looked at
any_none_first(v) == v[expts[1]].none

\* any([d is None for d in expt_dsets])
any_none(v) == \E e \in Range(expts) : v[e].none

\* for k, v in dsets_.items(): one pass of the loop body.  A model with a
\* dataset that is None is reported and left; for the others every dataset
\* gets its 'year' coordinate and the annual means of the experiments are
\* built (lazily) and entered in dsets_aligned.
LoopBody(k) ==
    /\ pc = "loop"
    /\ k \in todo
    /\ LET v == dsets_[k]
           missing == any_none(v)
           v_year == [e \in Range(expts) |-> Opened(WithYear(v[e].ds))]
           bad == {i \in DOMAIN expts : BuildRaises(v_year[expts[i]].ds) # ""}
       IN  IF missing
           THEN /\ stdout' = Append(stdout, <<"Missing experiment for", k>>)
                /\ todo' = todo \ {k}
                /\ pc' = IF todo' = {} THEN "compute" ELSE "loop"
                /\ UNCHANGED <<dsets_, dsets_aligned, work, error>>
           ELSE /\ dsets_' = [dsets_ EXCEPT ![k] = v_year]
                /\ IF bad # {}
                   THEN /\ error' = BuildRaises(
                               v_year[expts[CHOOSE i \in bad :
                                               \A j \in bad : i <= j]].ds)
                        /\ pc' = "failed"
                        /\ UNCHANGED <<todo, dsets_aligned, work>>
                   ELSE /\ dsets_aligned' = Append(dsets_aligned, k)
                        /\ work' = [work EXCEPT ![k].stage = "delayed"]
                        /\ todo' = todo \ {k}
                        /\ pc' = IF todo' = {} THEN "compute" ELSE "loop"
                        /\ error' = error
                /\ stdout' = stdout
    /\ UNCHANGED <<dsets_aligned_, big_ds, ds_anom, ds_abrupt, ds_abrupt_ecs>>
    /\ UNCHANGED <<catVars, ds, pcRed, lat_name, weight, out, out2,
                   tas, imbalance, build, pcEcs, ecs, ecs_plot>>

\* the datasets read by the task of model k, had the task looked up the
\* loop variable v when it runs: those of the last model entered
TaskInput_last(k) == dsets_[dsets_aligned[Len(dsets_aligned)]]

\* the datasets read by the task of model k: v[expt] was evaluated in the
\* pass of the loop for k, so the task holds the datasets of k
TaskInput(k) == dsets_[k]

\* dask.compute(dsets_aligned), the task of model k that carries out
\* v[expt].pipe(global_mean) for its experiments
Reduce(k) ==
    /\ pc = "compute"
    /\ work[k].stage = "delayed"
    /\ work' = [work EXCEPT ![k] =
                   [stage |-> "reduced",
                    red |-> [e \in Range(expts) |->
                                global_mean_ds(TaskInput(k)[e].ds).value],
                    val |-> NoAligned]]
    /\ dsets_' = [dsets_ EXCEPT ![k] =
                     [e \in Range(expts) |->
                         Opened(AfterGlobalMean(dsets_[k][e].ds))]]
    /\ UNCHANGED <<todo, stdout, dsets_aligned, dsets_aligned_, big_ds,
                   ds_anom, ds_abrupt, ds_abrupt_ecs, pc, error>>
    /\ UNCHANGED <<catVars, ds, pcRed, lat_name, weight, out, out2,
                   tas, imbalance, build, pcEcs, ecs, ecs_plot>>

\* the annual aggregation and the concatenation carried out for a model
\* whose global means have not been computed
Align_unreduced(k) ==
    /\ pc = "compute"
    /\ work[k].stage = "delayed"
    /\ work' = [work EXCEPT ![k].stage = "aligned",
                            ![k].val = ConcatRight(
                                [e \in Range(expts) |->
                                    AnnualMean(work[k].red[e]).value])]
    /\ UNCHANGED <<dsets_, todo, stdout, dsets_aligned, dsets_aligned_,
                   big_ds, ds_anom, ds_abrupt, ds_abrupt_ecs, pc, error>>
    /\ UNCHANGED <<catVars, ds, pcRed, lat_name, weight, out, out2,
                   tas, imbalance, build, pcEcs, ecs, ecs_plot>>

\* dask.compute(dsets_aligned), the task of model k that carries out
\* .swap_dims({'time': 'year'}).drop('time').coarsen(year=12).mean() and
\* xr.concat(dsets_ann_mean, join='right', dim=expt_da)
Align(k) ==
    /\ pc = "compute"
    /\ work[k].stage = "reduced"
    /\ work' = [work EXCEPT ![k].stage = "aligned",
                            ![k].val = ConcatRight(
                                [e \in Range(expts) |->
                                    AnnualMean(work[k].red[e]).value])]
    /\ UNCHANGED <<dsets_, todo, stdout, dsets_aligned, dsets_aligned_,
                   big_ds, ds_anom, ds_abrupt, ds_abrupt_ecs, pc, error>>
    /\ UNCHANGED <<catVars, ds, pcRed, lat_name, weight, out, out2,
                   tas, imbalance, build, pcEcs, ecs, ecs_plot>>

\* dsets_aligned_ = dask.compute(dsets_aligned)[0]: every task has run
Computed ==
    /\ pc = "compute"
    /\ \A k \in Range(dsets_aligned) : work[k].stage = "aligned"
    /\ dsets_aligned_' = [k \in Range(dsets_aligned) |-> work[k].val]
    /\ pc' = "concat"
    /\ UNCHANGED <<dsets_, todo, stdout, dsets_aligned, work, big_ds,
                   ds_anom, ds_abrupt, ds_abrupt_ecs, error>>
    /\ UNCHANGED <<catVars, ds, pcRed, lat_name, weight, out, out2,
                   tas, imbalance, build, pcEcs, ecs, ecs_plot>>

\* source_ids = list(dsets_aligned_.keys());
\* big_ds = xr.concat([ds.reset_coords(drop=True) for ds in
\*                     dsets_aligned_.values()], dim=source_da)
Concat ==
    /\ pc = "concat"
    /\ LET r == big_ds_of(dsets_aligned, dsets_aligned_)
       IN  /\ big_ds' = r.value
           /\ error' = r.raised
           /\ pc' = IF r.raised # "" THEN "failed" ELSE "anomaly"
    /\ UNCHANGED <<dsets_, todo, stdout, dsets_aligned, work, dsets_aligned_,
                   ds_anom, ds_abrupt, ds_abrupt_ecs>>
    /\ UNCHANGED <<catVars, ds, pcRed, lat_name, weight, out, out2,
                   tas, imbalance, build, pcEcs, ecs, ecs_plot>>

\* big_ds['imbalance'] = ...; ds_mean = ...; ds_anom = ... - ds_mean
Anomaly ==
    /\ pc = "anomaly"
    /\ big_ds' = with_imbalance(big_ds)
    /\ ds_anom' = ds_anom_of(big_ds')
    /\ pc' = "window"
    /\ UNCHANGED <<dsets_, todo, stdout, dsets_aligned, work, dsets_aligned_,
                   ds_abrupt, ds_abrupt_ecs, error>>
    /\ UNCHANGED <<catVars, ds, pcRed, lat_name, weight, out, out2,
                   tas, imbalance, build, pcEcs, ecs, ecs_plot>>

\* ds_abrupt = ds_anom.sel(year=first_150_years,
\*                         experiment_id='abrupt-2xCO2').reset_coords(drop=True)
Window ==
    /\ pc = "window"
    /\ ds_abrupt' = ds_abrupt_of(ds_anom)
    /\ pc' = "estimate"
    /\ UNCHANGED <<dsets_, todo, stdout, dsets_aligned, work, dsets_aligned_,
                   big_ds, ds_anom, ds_abrupt_ecs, error>>
    /\ UNCHANGED <<catVars, ds, pcRed, lat_name, weight, out, out2,
                   tas, imbalance, build, pcEcs, ecs, ecs_plot>>

\* ds_abrupt['ecs'] = ds_abrupt.groupby('source_id').apply(calc_ecs)
\* (what the LAPACK of the build does with a NaN matrix shows here)
Estimate ==
    /\ pc = "estimate"
    /\ build' \in Builds
    /\ ds_abrupt_ecs' = groupby_apply_calc_ecs(ds_abrupt, build')
    /\ ds_abrupt' = [ds_abrupt EXCEPT !.data =
                        [k \in Range(ds_abrupt.source_id) |->
                            AfterCalcEcs(ds_abrupt.data[k])]]
    /\ error' = ds_abrupt_ecs'.raised
    /\ pc' = IF error' # "" THEN "failed" ELSE "done"
    /\ UNCHANGED <<dsets_, todo, stdout, dsets_aligned, work, dsets_aligned_,
                   big_ds, ds_anom>>
    /\ UNCHANGED <<catVars, ds, pcRed, lat_name, weight, out, out2,
                   tas, imbalance, pcEcs, ecs, ecs_plot>>

NextPipeline ==
    \/ \E k \in ModelIds : LoopBody(k)
    \/ \E k \in ModelIds : Reduce(k)
    \/ \E k \in ModelIds : Align(k)
    \/ Computed
    \/ Concat
    \/ Anomaly
    \/ Window
    \/ Estimate

SpecPipeline == InitPipeline /\ [][NextPipeline]_vars

(***************************************************************************)
(* The cells before the loop: the rows of the catalog subset are grouped   *)
(* by model and experiment, every group gets a delayed call of open_dsets, *)
(* one group is opened directly to show it, and dask.compute opens all of  *)
(* them in parallel.  A row names the zstore of one variable of one run.   *)
(***************************************************************************)
\* variable_id = ['tas', 'rsut', 'rsdt', 'rlut'], in the order of the query
VarList == <<"tas", "rsut", "rsdt", "rlut">>

\* the experiments in the sorted order in which groupby visits them
SortedExpts == <<"abrupt-2xCO2", "piControl">>

Row(k, e, v) == [source_id |-> k, experiment_id |-> e, variable_id |-> v,
                 zstore |-> <<k, e, v>>]

\* the rows of the catalog for both models, variable by variable, so that
\* the rows of a group are not next to each other
Catalog ==
    [i \in 1..(Len(VarList) * Len(expts) * Len(Models)) |->
        Row(Models[((i - 1) % Len(Models)) + 1],
            expts[(((i - 1) \div Len(Models)) % Len(expts)) + 1],
            VarList[((i - 1) \div (Len(Models) * Len(expts))) + 1])]

\* if (('_bounds') in vname) or ('_bnds') in vname
IsBounds(vname) == vname \in {"time_bounds", "lat_bnds"}

\* ds.drop(drop_vars): the dataset without its bounds coordinates
drop_all_bounds(d) ==
    [d EXCEPT !.coords =
        [n \in {m \in DOMAIN d.coords : ~IsBounds(m)} |-> d.coords[n]]]

\* two datasets can be merged with join='exact': the same axes, the same
\* time index, and no coordinate or variable that both have with
\* different values
Mergeable(a, b) ==
    /\ a.dims = b.dims
    /\ a.time = b.time
    /\ \A n \in DOMAIN a.coords \cap DOMAIN b.coords :
          a.coords[n] = b.coords[n]
    /\ \A v \in DOMAIN a.vars \cap DOMAIN b.vars : a.vars[v] = b.vars[v]

\* the dataset with the coordinates and the variables of all of the list
Merged(list) ==
    LET names == UNION {DOMAIN list[i].coords : i \in DOMAIN list}
        vs    == UNION {DOMAIN list[i].vars : i \in DOMAIN list}
        has(n) == CHOOSE i \in DOMAIN list : n \in DOMAIN list[i].coords
        holds(v) == CHOOSE i \in DOMAIN list : v \in DOMAIN list[i].vars
    IN  [dims |-> UNION {list[i].dims : i \in DOMAIN list},
         coords |-> [n \in names |-> list[has(n)].coords[n]],
         time |-> IF list = <<>> THEN <<>> ELSE list[1].time,
         vars |-> [v \in vs |-> list[holds(v)].vars[v]]]

\* xr.merge(dsets, join='override'): the indexes of the first dataset are
\* taken for all of them, nothing is compared
merge_override(list) == Returned(Merged(list))

\* xr.merge(dsets, join='exact'): ValueError when the indexes differ (and
\* MergeError, a ValueError, when values conflict)
merge_exact(list) ==
    IF \E i, j \in DOMAIN list : ~Mergeable(list[i], list[j])
    THEN Raised("ValueError", NoRun)
    ELSE Returned(Merged(list))

\* open_dsets(df), store being what the zstores hold
open_dsets(df, store) ==
    LET list == [i \in DOMAIN df |-> drop_all_bounds(store[df[i].zstore])]
        r    == merge_exact(list)
    IN  IF r.raised = "ValueError" THEN None ELSE Opened(r.value)

\* the zstores in the rows of df
Zstores(df) == {df[i].zstore : i \in DOMAIN df}

\* a delayed call that has not run
Pending == [done |-> FALSE, value |-> None]

\* dask.delayed(open_dsets)(df): the call is recorded, not made
open_delayed(df) == [func |-> "open_dsets", args |-> df]

\* the rows of the subset grouped by source_id alone
GroupRows_by_model(rows, k, e) ==
    SelectSeq(rows, LAMBDA r : r.source_id = k)

\* col_subset.df.groupby(by=['source_id', 'experiment_id']): the rows of
\* the group (k, e), in the order of the catalog
GroupRows(rows, k, e) ==
    SelectSeq(rows, LAMBDA r : r.source_id = k /\ r.experiment_id = e)

\* the keys of the groups
GroupKeys(rows) ==
    {<<rows[i].source_id, rows[i].experiment_id>> : i \in DOMAIN rows}

\* the last group that the for loop visited: the one its variable df is
\* left with
LastGroup(rows) ==
    LET ks == {g[1] : g \in GroupKeys(rows)}
        k  == Models[CHOOSE i \in DOMAIN Models :
                        /\ Models[i] \in ks
                        /\ \A j \in DOMAIN Models : Models[j] \in ks => j <= i]
        es == {g[2] : g \in {h \in GroupKeys(rows) : h[1] = k}}
        e  == SortedExpts[CHOOSE i \in DOMAIN SortedExpts :
                        /\ SortedExpts[i] \in es
                        /\ \A j \in DOMAIN SortedExpts :
                              SortedExpts[j] \in es => j <= i]
    IN  <<k, e>>

\* how the zstores of a group differ from each other: not at all, in the
\* time index of one variable, in the bounds coordinates only, or in the
\* latitude of one variable
Layouts == {"same", "time", "bounds", "grid"}

\* the dataset held by the zstore of variable v of experiment e of model k
StoreOf(k, e, v, layout) ==
    LET base  == MakeRun(IF k = "A" THEN GridA ELSE GridB,
                         IF k = "A" THEN 1 ELSE 2, StartYear[e],
                         IF e = "piControl" THEN ControlFlat(1)
                         ELSE AbruptLine(2))
        shift == IF layout = "time" /\ v = "rsut" THEN 1 ELSE 0
        which == IF layout = "bounds" /\ v # "tas" THEN 1 ELSE 0
    IN  [dims |-> base.dims,
         coords |->
            [n \in DOMAIN base.coords \cup {"time_bounds", "lat_bnds"} |->
                IF n = "time_bounds"
                THEN [dims |-> {"time"},
                      vals |-> [t \in DOMAIN base.time |-> which]]
                ELSE IF n = "lat_bnds"
                THEN [dims |-> {"y"}, vals |-> <<which>>]
                ELSE IF layout = "grid" /\ v = "rlut"
                THEN Flip(base.coords[n])
                ELSE base.coords[n]],
         time |-> [t \in DOMAIN base.time |-> base.time[t] + shift],
         vars |-> [u \in {v} |-> base.vars[v]]]

\* the catalog subsets: no model, model A, or both, every model with both
\* experiments and the four variables (require_all_on=["source_id"])
InitOpen ==
    /\ \E present \in {{}, {"A"}, {"A", "B"}} :
       \E layout \in [present \X Range(expts) -> Layouts] :
          /\ "B" \in present => layout[<<"B", "abrupt-2xCO2">>] = "same"
          /\ col_subset = SelectSeq(Catalog,
                                    LAMBDA r : r.source_id \in present)
          /\ zarr = [u \in Zstores(col_subset) |->
                        StoreOf(u[1], u[2], u[3], layout[<<u[1], u[2]>>])]
    /\ dsets = [k \in {} |-> 0]
    /\ tasks = [g \in {} |-> 0]
    /\ opened = {}
    /\ dsets_ = [k \in {} |-> 0]
    /\ build = "unknown"
    /\ todo = {}
    /\ stdout = <<>>
    /\ dsets_aligned = <<>>
    /\ work = [k \in ModelIds |-> NoWork]
    /\ dsets_aligned_ = [k \in {} |-> NoAligned]
    /\ big_ds = NoBig
    /\ ds_anom = NoAnom
    /\ ds_abrupt = NoAnom
    /\ ds_abrupt_ecs = NoEcs
    /\ pc = "group"
    /\ error = ""
    /\ ReducerIdle
    /\ tas = <<>>
    /\ imbalance = <<>>
    /\ pcEcs = "idle"
    /\ ecs = NoFit
    /\ ecs_plot = NoFit

notCat == <<ds, pcRed, lat_name, weight, out, out2,
            tas, imbalance, build, pcEcs, ecs, ecs_plot,
            dsets_, todo, stdout, dsets_aligned, work, dsets_aligned_,
            big_ds, ds_anom, ds_abrupt, ds_abrupt_ecs>>

\* the loop with open_dsets(df) called in place of open_delayed(df)
Group_eager ==
    /\ pc = "group"
    /\ LET keys == GroupKeys(col_subset)
       IN  /\ dsets' = [k \in {g[1] : g \in keys} |->
                          [e \in {g[2] : g \in {h \in keys : h[1] = k}} |->
                              open_delayed(GroupRows(col_subset, k, e))]]
           /\ tasks' = [g \in keys |->
                          [done |-> TRUE,
                           value |-> open_dsets(
                               GroupRows(col_subset, g[1], g[2]), zarr)]]
           /\ opened' = Zstores(col_subset)
    /\ pc' = "show"
    /\ UNCHANGED <<col_subset, zarr, error, notCat>>

\* dsets = defaultdict(dict)
\* for group, df in col_subset.df.groupby(by=['source_id', 'experiment_id']):
\*     dsets[group[0]][group[1]] = open_delayed(df)
Group ==
    /\ pc = "group"
    /\ LET keys == GroupKeys(col_subset)
       IN  /\ dsets' = [k \in {g[1] : g \in keys} |->
                          [e \in {g[2] : g \in {h \in keys : h[1] = k}} |->
                              open_delayed(GroupRows(col_subset, k, e))]]
           /\ tasks' = [g \in keys |-> Pending]
    /\ pc' = "show"
    /\ UNCHANGED <<col_subset, zarr, opened, error, notCat>>

\* %time open_dsets(df): the last group of the loop is opened directly and
\* shown; with no group at all df is not defined
ShowOne ==
    /\ pc = "show"
    /\ IF col_subset = <<>>
       THEN /\ error' = "NameError"
            /\ pc' = "failed"
            /\ opened' = opened
       ELSE /\ opened' = opened \cup
                  Zstores(GroupRows(col_subset, LastGroup(col_subset)[1],
                                    LastGroup(col_subset)[2]))
            /\ pc' = "open"
            /\ error' = error
    /\ UNCHANGED <<col_subset, zarr, dsets, tasks, notCat>>

\* dask.compute(dict(dsets)): the task of one delayed call runs
OpenTask(k, e) ==
    /\ pc = "open"
    /\ <<k, e>> \in DOMAIN tasks
    /\ ~tasks[<<k, e>>].done
    /\ tasks' = [tasks EXCEPT ![<<k, e>>] =
                    [done |-> TRUE,
                     value |-> open_dsets(dsets[k][e].args, zarr)]]
    /\ opened' = opened \cup Zstores(dsets[k][e].args)
    /\ UNCHANGED <<col_subset, zarr, dsets, pc, error, notCat>>

\* dsets_ = dask.compute(dict(dsets))[0]: every task has run
ComputeDsets ==
    /\ pc = "open"
    /\ \A g \in DOMAIN tasks : tasks[g].done
    /\ dsets_' = [k \in DOMAIN dsets |->
                    [e \in DOMAIN dsets[k] |-> tasks[<<k, e>>].value]]
    /\ todo' = DOMAIN dsets
    /\ pc' = IF todo' = {} THEN "compute" ELSE "loop"
    /\ UNCHANGED <<catVars, stdout, dsets_aligned, work, dsets_aligned_,
                   big_ds, ds_anom, ds_abrupt, ds_abrupt_ecs, error>>
    /\ UNCHANGED <<ds, pcRed, lat_name, weight, out, out2,
                   tas, imbalance, build, pcEcs, ecs, ecs_plot>>

NextOpen ==
    \/ Group
    \/ ShowOne
    \/ \E k \in ModelIds, e \in Range(expts) : OpenTask(k, e)
    \/ ComputeDsets
    \/ \E k \in ModelIds : LoopBody(k)
    \/ \E k \in ModelIds : Reduce(k)
    \/ \E k \in ModelIds : Align(k)
    \/ Computed

SpecOpen == InitOpen /\ [][NextOpen]_vars

(***************************************************************************)
(* Vocabulary of the properties.                                           *)
(***************************************************************************)
\* The floating-point tolerance of the properties: 16 units of the last
\* place of 1.0 (the 1e-9 of float64, scaled to Precision).
Tol == <<16, MantHi>>

RAbs(a) == <<Abs(a[1]), a[2]>>

\* a <= b for finite a, b
RLeq(a, b) == a[1] * b[2] <= b[1] * a[2]

RMax(a, b) == IF RLeq(a, b) THEN b ELSE a

\* a and b agree within the tolerance (relative to the larger of the two),
\* or are both missing
Close(a, b) ==
    \/ a = b
    \/ /\ IsFinite(a)
       /\ IsFinite(b)
       /\ RLeq(RAbs(RSub(a, b)), RMul(Tol, RMax(RAbs(a), RAbs(b))))

EstimatorRan == pcEcs \in {"ecs", "plotted"}

PlotRan == pcEcs = "plotted"

ReducerRan == pcRed \in {"reduced", "again"}

\* the (tas, imbalance) pairs of the years at which both are defined
RECURSIVE PairedObs(_, _)
PairedObs(t, imb) ==
    IF t = <<>> THEN <<>>
    ELSE (IF NotNaN(Head(t)) /\ NotNaN(Head(imb))
          THEN << <<Head(t), Head(imb)>> >> ELSE <<>>)
         \o PairedObs(Tail(t), Tail(imb))

PairedTas == [i \in 1..Len(PairedObs(tas, imbalance)) |->
                 PairedObs(tas, imbalance)[i][1]]

PairedImbalance == [i \in 1..Len(PairedObs(tas, imbalance)) |->
                       PairedObs(tas, imbalance)[i][2]]

\* C1: calc_ecs and calc_and_plot_ecs fit exactly the pairs of the years at
\* which both tas and imbalance are defined: a year at which either is
\* missing is left out of both sequences handed to the line fit.
C1_PairedExclusion ==
    /\ EstimatorRan /\ ecs.raised = ""
          => ecs.x = PairedTas /\ ecs.y = PairedImbalance
    /\ PlotRan /\ ecs_plot.raised = ""
          => ecs_plot.x = PairedTas /\ ecs_plot.y = PairedImbalance

\* C2: whenever fewer than 2 paired valid observations remain, or the
\* fitted slope is exactly zero, calc_ecs fails (the error the contract
\* calls DegenerateFitError; any error raised counts here) and returns no
\* estimate, in particular no infinite or NaN one.
C2_DegenerateFitError ==
    EstimatorRan /\ (\/ Len(PairedObs(tas, imbalance)) < 2
                     \/ (ecs.raised = "" /\ ecs.a = R(0)))
        => ecs.raised # ""

(***************************************************************************)
(* Properties of the reducer.                                              *)
(***************************************************************************)
HasLat(d) == DOMAIN d.coords \cap {"lat", "latitude"} # {}

\* the value of a reduced dataset at time step t
At(d, t) == d.data[t][1][1]

\* ds.mean(other_dims): the unweighted mean of the field at time step t
Unweighted(d, t) == NanMean(Flatten(d.data[t]))

AllMissing(d, t) ==
    \A i \in 1..NLat(d), j \in 1..NLon(d) : IsNaN(d.data[t][i][j])

\* what a call of global_mean on a series with only the time axis gives:
\* the series itself when it carries a latitude coordinate, the
\* RuntimeError of get_lat_name when it carries none
TimeOnlyCall(d, r) ==
    IF HasLat(d) THEN r = Returned(d) ELSE r.raised = "RuntimeError"

\* C3 as stated: global_mean applied to a series that has only the time
\* axis, the output of a previous global_mean call included, returns that
\* series unchanged.
C3_Idempotent ==
    /\ ReducerRan /\ ds.dims = {"time"} => out = Returned(ds)
    /\ pcRed = "again" => out2 = Returned(out.value)

\* C3 amended: global_mean returns a time-only series unchanged only when
\* the series still carries a latitude coordinate (a scalar one); without
\* one it raises RuntimeError, and the output of global_mean on a field
\* with a latitude axis is such a series, its latitude coordinate having
\* been reduced away with the axis.
C3_TimeOnlyNeedsLatitude ==
    /\ ReducerRan /\ ds.dims = {"time"} => TimeOnlyCall(ds, out)
    /\ pcRed = "again" =>
          /\ out.value.dims = {"time"}
          /\ TimeOnlyCall(out.value, out2)
          /\ "y" \in ds.dims => out2.raised = "RuntimeError"

C3_Witness ==
    /\ pcRed = "again"
    /\ "y" \in ds.dims
    /\ NLat(ds) > 1
    /\ out.raised = ""
    /\ out2.raised = "RuntimeError"

\* C4: get_lat_name returns 'lat' whenever 'lat' is a coordinate of the
\* dataset, also when 'latitude' is one too, and 'latitude' only when
\* 'lat' is absent; the weights are built from the coordinate it names.
C4_LatNamePriority ==
    ReducerRan =>
        /\ "lat" \in DOMAIN ds.coords =>
              /\ lat_name = Returned("lat")
              /\ weight = Weight(ds.coords["lat"])
        /\ "lat" \notin DOMAIN ds.coords /\ "latitude" \in DOMAIN ds.coords =>
              /\ lat_name = Returned("latitude")
              /\ weight = Weight(ds.coords["latitude"])

C4_Witness ==
    /\ ReducerRan
    /\ DOMAIN ds.coords = {"lat", "latitude"}
    /\ ds.coords["lat"] # ds.coords["latitude"]
    /\ lat_name = Returned("lat")

\* C5: with neither 'lat' nor 'latitude' among the coordinates, global_mean
\* returns nothing: the RuntimeError of get_lat_name reaches its caller.
C5_MissingLatitudeRaises ==
    ReducerRan /\ ~HasLat(ds) =>
        /\ lat_name.raised = "RuntimeError"
        /\ out = Raised("RuntimeError", NoDs)

C5_Witness ==
    /\ pcRed = "reduced"
    /\ ~HasLat(ds)
    /\ NLat(ds) > 1
    /\ out.raised = "RuntimeError"

\* C6: the weight vector global_mean builds (the cosines of the latitudes
\* divided by their mean) has mean 1, within floating-point tolerance.
C6_WeightMeanOne ==
    ReducerRan /\ lat_name.raised = "" => Close(Mean(weight), R(1))

C6_Witness ==
    /\ ReducerRan
    /\ lat_name.raised = ""
    /\ \E i, j \in DOMAIN weight : weight[i] # weight[j]
    /\ Close(Mean(weight), R(1))

UniformLat ==
    /\ lat_name.raised = ""
    /\ \A i, j \in DOMAIN weight :
          ds.coords[lat_name.value].vals[i] = ds.coords[lat_name.value].vals[j]

\* C7 as stated: with all latitudes identical the weighted mean equals the
\* unweighted mean of the field exactly, at every time step.
C7_UniformWeightExact ==
    ReducerRan /\ UniformLat =>
        \A t \in 1..NT(ds) : At(out.value, t) = Unweighted(ds, t)

\* C7 amended: with all latitudes identical the weighted mean equals the
\* unweighted mean within floating-point tolerance at every time step, not
\* exactly: the mean of equal cosines is rounded, so the normalised weight
\* need not be 1.
C7_UniformWeightClose ==
    ReducerRan /\ UniformLat =>
        \A t \in 1..NT(ds) : Close(At(out.value, t), Unweighted(ds, t))

C7_Witness ==
    /\ ReducerRan
    /\ UniformLat
    /\ weight[1] # R(1)
    /\ \E t \in 1..NT(ds) :
          /\ At(out.value, t) # Unweighted(ds, t)
          /\ Close(At(out.value, t), Unweighted(ds, t))

\* the field times the weight of its latitude row, cell k of time step t in
\* row-major order
WeightedCell(t, k) ==
    LET i == ((k - 1) \div NLon(ds)) + 1
        j == ((k - 1) % NLon(ds)) + 1
    IN  FMul(ds.data[t][i][j],
             IF "y" \in ds.coords[lat_name.value].dims THEN weight[i]
             ELSE weight[1])

WeightedCells(t) == [k \in 1..(NLat(ds) * NLon(ds)) |-> WeightedCell(t, k)]

\* C8: the output of global_mean has the time axis and no other, one value
\* per time step of the input, and that value is the arithmetic mean over
\* all defined cells of the step of the field times the weight of the
\* cell's latitude.
C8_WeightedMeanOverAllButTime ==
    ReducerRan /\ out.raised = "" =>
        /\ out.value.dims = {"time"}
        /\ NT(out.value) = NT(ds)
        /\ \A t \in 1..NT(ds) :
              /\ Len(out.value.data[t]) = 1
              /\ Len(out.value.data[t][1]) = 1
              /\ At(out.value, t) =
                    LET c == SelectSeq(WeightedCells(t), NotNaN)
                    IN  IF c = <<>> THEN NaN
                        ELSE FDiv(FSum(c), R(Len(c)))

C8_Witness ==
    /\ ReducerRan
    /\ out.raised = ""
    /\ ds.dims = {"time", "y", "x"}
    /\ NLat(ds) > 1
    /\ NLon(ds) > 1
    /\ \E i, j \in DOMAIN weight : weight[i] # weight[j]
    /\ At(out.value, 1) # Unweighted(ds, 1)

\* the dataset cut down to its time step t
OnlyStep(d, t) == [d EXCEPT !.data = <<d.data[t]>>]

\* C9: a time step at which every value is missing is missing in the
\* output, and a time step with a defined value has the value it has when
\* reduced on its own.
C9_AllMissingStepIsMissing ==
    ReducerRan /\ out.raised = "" =>
        \A t \in 1..NT(ds) :
            IF AllMissing(ds, t) THEN IsNaN(At(out.value, t))
            ELSE /\ IsFinite(At(out.value, t))
                 /\ At(out.value, t) = At(global_mean(OnlyStep(ds, t)).value, 1)

C9_Witness ==
    /\ ReducerRan
    /\ out.raised = ""
    /\ NT(ds) = 2
    /\ NLat(ds) > 1
    /\ AllMissing(ds, 1)
    /\ IsNaN(At(out.value, 1))
    /\ ~AllMissing(ds, 2)
    /\ \E i \in 1..NLat(ds) : IsNaN(ds.data[2][i][1])
    /\ At(out.value, 2) # R(0)

\* C10: a field that is zero everywhere reduces to a series that is zero at
\* every time step, whatever the latitudes.
C10_ZeroFieldZeroSeries ==
    ReducerRan /\ out.raised = ""
      /\ (\A t \in 1..NT(ds), i \in 1..NLat(ds), j \in 1..NLon(ds) :
              ds.data[t][i][j] = R(0))
        => \A t \in 1..NT(ds) : At(out.value, t) = R(0)

C10_Witness ==
    /\ ReducerRan
    /\ out.raised = ""
    /\ NT(ds) > 1
    /\ \E i, j \in DOMAIN weight : weight[i] # weight[j]
    /\ \A t \in 1..NT(ds), i \in 1..NLat(ds), j \in 1..NLon(ds) :
          ds.data[t][i][j] = R(0)
    /\ \A t \in 1..NT(ds) : At(out.value, t) = R(0)

\* cell (i, j) of time step t of ds * weight
WeightedAt(t, i, j) == WeightedCell(t, (i - 1) * NLon(ds) + j)

\* (ds * weight).mean('y').mean('x') at time step t: latitude reduced
\* first, then longitude
LatThenLon(t) ==
    NanMean([j \in 1..NLon(ds) |->
                NanMean([i \in 1..NLat(ds) |-> WeightedAt(t, i, j)])])

\* (ds * weight).mean('x').mean('y') at time step t
LonThenLat(t) ==
    NanMean([i \in 1..NLat(ds) |->
                NanMean([j \in 1..NLon(ds) |-> WeightedAt(t, i, j)])])

NoneMissing(d, t) ==
    \A i \in 1..NLat(d), j \in 1..NLon(d) : NotNaN(d.data[t][i][j])

\* C11 as stated: reducing latitude then longitude, longitude then
\* latitude, or both at once as global_mean does, gives the same series for
\* every field, fields with missing values included.
C11_AxisOrderSame ==
    ReducerRan /\ out.raised = "" =>
        \A t \in 1..NT(ds) :
            /\ At(out.value, t) = LatThenLon(t)
            /\ At(out.value, t) = LonThenLat(t)

\* C11 amended: at a time step without missing values the three orders of
\* reduction agree within floating-point tolerance; with missing values
\* they need not (a mean of row means weighs the cells of a row with fewer
\* defined values more).
C11_AxisOrderCloseWhenComplete ==
    ReducerRan /\ out.raised = "" =>
        \A t \in 1..NT(ds) :
            NoneMissing(ds, t) =>
                /\ Close(At(out.value, t), LatThenLon(t))
                /\ Close(At(out.value, t), LonThenLat(t))
                /\ Close(LatThenLon(t), LonThenLat(t))

C11_Witness ==
    /\ ReducerRan
    /\ out.raised = ""
    /\ NLat(ds) > 1
    /\ NLon(ds) > 1
    /\ NoneMissing(ds, 1)
    /\ \E i, j \in DOMAIN weight : weight[i] # weight[j]
    /\ \E i \in 1..NLat(ds) : ds.data[1][i][1] # ds.data[1][i][2]
    /\ \E j \in 1..NLon(ds) : ds.data[1][1][j] # ds.data[1][2][j]
    /\ Close(At(out.value, 1), LatThenLon(1))
    /\ At(out.value, 1) # R(0)

(***************************************************************************)
(* Properties of the estimator on exact lines.                             *)
(***************************************************************************)
\* tas and imbalance are missing at the same years
MissingTogether == \A i \in DOMAIN tas : IsNaN(tas[i]) <=> IsNaN(imbalance[i])

Pairs == PairedObs(tas, imbalance)

\* the first pair whose tas differs from that of the first pair
OtherPair ==
    Pairs[CHOOSE i \in DOMAIN Pairs :
              /\ Pairs[i][1] # Pairs[1][1]
              /\ \A k \in 1..(i - 1) : Pairs[k][1] = Pairs[1][1]]

\* slope and intercept of the line through the first pair and OtherPair,
\* in exact arithmetic
LineSlope ==
    RDiv(RSub(OtherPair[2], Pairs[1][2]), RSub(OtherPair[1], Pairs[1][1]))

LineIntercept == RSub(Pairs[1][2], RMul(LineSlope, Pairs[1][1]))

\* the pairs lie on one line of nonzero slope and have two distinct tas
OnALine ==
    /\ \E i \in DOMAIN Pairs : Pairs[i][1] # Pairs[1][1]
    /\ LineSlope # R(0)
    /\ \A i \in DOMAIN Pairs :
          Pairs[i][2] = RAdd(RMul(LineSlope, Pairs[i][1]), LineIntercept)

\* C13: for observations that lie exactly on a line imbalance = a tas + b
\* with a # 0 and two distinct tas values, calc_ecs fits imbalance as a
\* function of tas, finds the slope a and the intercept b (as the nearest
\* floats) and returns -0.5 * (b / a); for tas = 0, 1, 2, 3 and imbalance =
\* 4, 2, 0, -2 that is a = -2, b = 4 and the sensitivity 1.
C13_ExactLineRecovered ==
    /\ EstimatorRan /\ MissingTogether /\ OnALine =>
          /\ ecs.raised = ""
          /\ ecs.a = Round(LineSlope)
          /\ ecs.b = Round(LineIntercept)
          /\ ecs.value = FMul(<<-1, 2>>, FDiv(Round(LineIntercept),
                                               Round(LineSlope)))
    /\ EstimatorRan /\ tas = LineTas /\ imbalance = LineImbalance =>
          /\ ecs.a = R(-2)
          /\ ecs.b = R(4)
          /\ ecs.value = R(1)

C13_Witness ==
    /\ EstimatorRan
    /\ tas = LineTas
    /\ imbalance = LineImbalance
    /\ OnALine
    /\ ecs.a = R(-2)
    /\ ecs.b = R(4)
    /\ ecs.value = R(1)

(***************************************************************************)
(* Properties of the pipeline over the models.                             *)
(***************************************************************************)
\* the notebook ran to its end and the estimates were returned
PipelineDone == pc = "done"

SoloAnom(k) ==
    ds_anom_of(with_imbalance(
        big_ds_of(<<k>>, [m \in {k} |-> dsets_aligned_[k]]).value))

\* the position of a year label in an index (0: not in it)
PosOf(index, label) ==
    IF \E j \in DOMAIN index : index[j] = label
    THEN CHOOSE j \in DOMAIN index : index[j] = label
    ELSE 0

\* the anomalies were computed, and nothing has been derived from them yet
AnomalyRan == pc = "window"

\* C14: the anomalies of a model are a function of that model's data alone.
\* In ds_anom, at every year of the model's own runs and for both
\* experiments, its tas and imbalance anomalies are the ones computed from
\* its own annual means alone, whatever the data of the other model, whether the
\* other model is part of the collection, and in whatever order the loop
\* went over the models; the years that only the other model has are
\* missing for it.
C14_AnomalyOfModelAlone ==
    AnomalyRan =>
        \A k \in Range(ds_anom.source_id) :
            LET solo == SoloAnom(k)
            IN  \A e \in Range(expts), v \in AnomNames,
                   i \in DOMAIN ds_anom.year :
                    LET j == PosOf(solo.year, ds_anom.year[i])
                    IN  IF j = 0 THEN IsNaN(ds_anom.data[k][e][v][i])
                        ELSE ds_anom.data[k][e][v][i] = solo.data[k][e][v][j]

\* both models are in ds_anom, the loop took B first, the models have
\* different baselines, and model A has anomalies that are not zero
C14_Witness ==
    /\ AnomalyRan
    /\ dsets_aligned = <<"B", "A">>
    /\ ds_mean_of(big_ds)["A"]["tas"] # ds_mean_of(big_ds)["B"]["tas"]
    /\ IsFinite(ds_mean_of(big_ds)["A"]["tas"])
    /\ IsFinite(ds_mean_of(big_ds)["B"]["tas"])
    /\ \E i \in DOMAIN ds_anom.year :
          /\ IsFinite(ds_anom.data["A"]["abrupt-2xCO2"]["tas"][i])
          /\ ds_anom.data["A"]["abrupt-2xCO2"]["tas"][i] # R(0)
          /\ IsNaN(ds_anom.data["B"]["abrupt-2xCO2"]["tas"][i])

\* the annual means of experiment e of model k, over all the years of the
\* run
AnnualOf(k, e) == AnnualMean(work[k].red[e]).value

\* the annual series of tas or of the imbalance of the piControl run of
\* model k, over all the years of the run
ControlAnnual(k, v) ==
    LET a == AnnualOf(k, "piControl")
    IN  IF v = "tas" THEN a.vars["tas"]
        ELSE [g \in DOMAIN a.year |->
                 FSub(FSub(a.vars["rsdt"][g], a.vars["rsut"][g]),
                      a.vars["rlut"][g])]

\* the same series, over the years that the abrupt run of the model has too
ControlAnnualAligned(k, v) ==
    LET a == AnnualOf(k, "piControl")
        keep(g) == a.year[g] \in Range(AnnualOf(k, "abrupt-2xCO2").year)
        at == SelectSeq([g \in DOMAIN a.year |-> g], keep)
    IN  [i \in DOMAIN at |-> ControlAnnual(k, v)[at[i]]]

\* the largest magnitude among the finite values of a series (0: none)
RECURSIVE MaxAbs(_)
MaxAbs(s) ==
    IF s = <<>> THEN R(0)
    ELSE IF IsFinite(Head(s)) THEN RMax(RAbs(Head(s)), MaxAbs(Tail(s)))
    ELSE MaxAbs(Tail(s))

\* a is zero within the tolerance, relative to the magnitude scale; or
\* missing
NearZero(a, scale) ==
    \/ IsNaN(a)
    \/ /\ IsFinite(a)
       /\ RLeq(RAbs(a), RMul(Tol, scale))

\* the anomalies of model k are its values minus baseline[v], and those of
\* its piControl branch average to zero
AnomalyAbout(k, baseline) ==
    \A v \in AnomNames :
        /\ \A e \in Range(expts), i \in DOMAIN ds_anom.year :
              ds_anom.data[k][e][v][i]
                  = FSub(big_ds.data[k][e][v][i], baseline[v])
        /\ NearZero(NanMean(ds_anom.data[k]["piControl"][v]),
                    MaxAbs(big_ds.data[k]["piControl"][v]))

\* C15 as stated: the baseline of tas and of imbalance of every model is
\* the mean over all the years of its piControl run (within floating-point
\* tolerance), every anomaly is the value minus that baseline, and the
\* piControl anomalies average to zero.
C15_BaselineAllYears ==
    AnomalyRan =>
        \A k \in Range(ds_anom.source_id) :
            LET baseline == [v \in AnomNames |-> NanMean(ControlAnnual(k, v))]
            IN  /\ \A v \in AnomNames :
                      Close(ds_mean_of(big_ds)[k][v], baseline[v])
                /\ AnomalyAbout(k, ds_mean_of(big_ds)[k])

\* C15, amended: the baseline of tas and of imbalance of every model is the
\* mean over those years of its piControl run that its abrupt run has too
\* (relative years, the alignment of the loop having dropped the others);
\* every anomaly of the model is the value minus that baseline, and the
\* piControl anomalies average to zero within floating-point tolerance.
C15_BaselineAlignedYears ==
    AnomalyRan =>
        \A k \in Range(ds_anom.source_id) :
            LET baseline == [v \in AnomNames |->
                                NanMean(ControlAnnualAligned(k, v))]
            IN  /\ \A v \in AnomNames : ds_mean_of(big_ds)[k][v] = baseline[v]
                /\ AnomalyAbout(k, baseline)

\* a model whose control run is longer than its abrupt run and drifts: the
\* baseline is not the mean over all the years of the control run
C15_Witness ==
    /\ AnomalyRan
    /\ \E k \in Range(ds_anom.source_id) :
          /\ Len(AnnualOf(k, "piControl").year)
                > Len(AnnualOf(k, "abrupt-2xCO2").year)
          /\ IsFinite(ds_mean_of(big_ds)[k]["tas"])
          /\ ~Close(ds_mean_of(big_ds)[k]["tas"],
                    NanMean(ControlAnnual(k, "tas")))
          /\ \E i \in DOMAIN ds_anom.year :
                /\ IsFinite(ds_anom.data[k]["abrupt-2xCO2"]["tas"][i])
                /\ ds_anom.data[k]["abrupt-2xCO2"]["tas"][i] # R(0)

\* an experiment of model k was not opened: its dataset is None
Missing(k) == \E e \in Range(expts) : dsets_[k][e] = None

Reported(k) ==
    \E i \in DOMAIN stdout : stdout[i] = <<"Missing experiment for", k>>

\* model k has no part in any result of the notebook
NoResultFor(k) ==
    /\ k \notin Range(dsets_aligned)
    /\ work[k].stage = "none"
    /\ k \notin DOMAIN dsets_aligned_
    /\ k \notin Range(big_ds.source_id)
    /\ k \notin Range(ds_anom.source_id)
    /\ k \notin Range(ds_abrupt.source_id)
    /\ k \notin DOMAIN ds_abrupt_ecs.value

\* C16: a model with a dataset that is None is skipped entirely.  Once the
\* loop has visited it, it is reported and it has no entry in dsets_aligned
\* nor in any later result, and every model the loop has visited without an
\* error and that misses nothing has its entry; none of the datasets of a
\* model that misses an experiment is ever modified; and the step that
\* reports a model only takes that model off the loop, which goes on with
\* the remaining models (or, after the last one, to dask.compute).
C16_MissingModelSkipped ==
    /\ [](\A k \in ModelIds :
             /\ Missing(k) => NoResultFor(k)
             /\ Missing(k) /\ k \notin todo => Reported(k)
             /\ Reported(k) => Missing(k)
             /\ ~Missing(k) /\ k \notin todo => k \in Range(dsets_aligned))
    /\ [][/\ \A k \in ModelIds : Missing(k) => dsets_'[k] = dsets_[k]
          /\ stdout' # stdout =>
                \E k \in todo :
                    /\ Missing(k)
                    /\ todo' = todo \ {k}
                    /\ dsets_aligned' = dsets_aligned
                    /\ error' = ""
                    /\ pc' = IF todo' = {} THEN "compute" ELSE "loop"]_vars

\* model A misses an experiment and was reported; model B went through the
\* whole notebook and has its estimate
C16_Witness ==
    /\ PipelineDone
    /\ Missing("A")
    /\ Reported("A")
    /\ \E e \in Range(expts) : dsets_["A"][e] # None
    /\ DOMAIN ds_abrupt_ecs.value = {"B"}

\* calc_ecs was applied to the models of ds_abrupt: it returned for all of
\* them, or an error ended the notebook there
EstimateRan ==
    \/ pc = "done"
    \/ pc = "failed" /\ ds_abrupt.source_id # <<>>

\* the years of model k in ds_abrupt at which both tas and imbalance exist
PairsOf(k) == PairedObs(ds_abrupt.data[k]["tas"], ds_abrupt.data[k]["imbalance"])

\* the fit of model k is degenerate: fewer than two valid pairs, no spread
\* in tas (no slope), or no spread in imbalance (zero slope)
Degenerate(k) ==
    \/ Len(PairsOf(k)) < 2
    \/ \A i \in DOMAIN PairsOf(k) : PairsOf(k)[i][1] = PairsOf(k)[1][1]
    \/ \A i \in DOMAIN PairsOf(k) : PairsOf(k)[i][2] = PairsOf(k)[1][2]

\* C17: a degenerate fit of one model is caught at the per-model boundary.
\* Once calc_ecs has been applied to the models, the notebook has not
\* failed, the mapping of the estimates has no entry for a model whose fit
\* is degenerate, and it has the estimate of every other model.
C17_DegenerateFitOmitted ==
    EstimateRan =>
        /\ pc = "done"
        /\ \A k \in Range(ds_abrupt.source_id) :
              IF Degenerate(k) THEN k \notin DOMAIN ds_abrupt_ecs.value
              ELSE /\ k \in DOMAIN ds_abrupt_ecs.value
                   /\ IsFinite(ds_abrupt_ecs.value[k])

\* the global means of the experiments of model k, computed from the
\* datasets of k
SequentialReduced(k) ==
    [e \in Range(expts) |-> global_mean_ds(dsets_[k][e].ds).value]

\* the entry of model k in dsets_aligned_, computed from global means
SequentialAligned(red) ==
    ConcatRight([e \in Range(expts) |-> AnnualMean(red[e]).value])

\* the estimate of model k, computed from the annual means of k alone
SequentialEcs(k) ==
    LET abrupt == ds_abrupt_of(SoloAnom(k))
    IN  calc_ecs(abrupt.data[k]["tas"], abrupt.data[k]["imbalance"], build)

\* dask.compute has returned, and nothing has been derived from its result
ComputeRan == pc = "concat"

\* C18: the pipelines of different models can run concurrently.  A step
\* that writes the datasets or the task state of one model leaves those of
\* every other model as they were; whatever the order in which the loop
\* visited the models and however the tasks of dask.compute interleaved,
\* the annual means of every model are those computed from its own datasets
\* one step after the other, and its estimate is the one computed from its
\* own annual means alone.
C18_InterleavingsAgree ==
    /\ [][\A k \in ModelIds :
             work'[k] # work[k] \/ dsets_'[k] # dsets_[k] =>
                 \A j \in ModelIds \ {k} :
                     work'[j] = work[j] /\ dsets_'[j] = dsets_[j]]_vars
    /\ [](ComputeRan =>
             \A k \in DOMAIN dsets_aligned_ :
                 /\ work[k].red = SequentialReduced(k)
                 /\ dsets_aligned_[k] = SequentialAligned(work[k].red))
    /\ [](PipelineDone =>
             \A k \in DOMAIN ds_abrupt_ecs.value :
                 ds_abrupt_ecs.value[k] = SequentialEcs(k).value)

\* both models went through the notebook, B entered first, with different
\* annual means and different finite estimates
C18_Witness ==
    /\ PipelineDone
    /\ dsets_aligned = <<"B", "A">>
    /\ dsets_aligned_["A"] # dsets_aligned_["B"]
    /\ IsFinite(ds_abrupt_ecs.value["A"])
    /\ IsFinite(ds_abrupt_ecs.value["B"])
    /\ ds_abrupt_ecs.value["A"] # ds_abrupt_ecs.value["B"]

\* the window was cut, and calc_ecs has or has not been applied to it
WindowRan == pc \in {"estimate", "done"} \/ EstimateRan

C20_OneEstimatePerModel ==
    EstimateRan =>
        /\ ds_abrupt_ecs.raised = ""
        /\ DOMAIN ds_abrupt_ecs.value = Range(ds_abrupt.source_id)
        /\ \A k \in DOMAIN ds_abrupt_ecs.value :
              ds_abrupt_ecs.value[k] =
                  calc_ecs(ds_abrupt.data[k]["tas"],
                           ds_abrupt.data[k]["imbalance"], build).value

(***************************************************************************)
(* Further properties of the reducer and of the estimators.                *)
(***************************************************************************)
\* at time step t every defined cell of ds holds c, and there is one
UniformAt(t, c) ==
    /\ \A i \in 1..NLat(ds), j \in 1..NLon(ds) :
          IsNaN(ds.data[t][i][j]) \/ ds.data[t][i][j] = c
    /\ \E i \in 1..NLat(ds), j \in 1..NLon(ds) : ds.data[t][i][j] = c

\* C24: for a field that holds the same value c at every defined cell of a
\* time step, global_mean returns c at that step (within floating-point
\* tolerance), whether or not some cells are missing.
C24_UniformFieldMean ==
    ReducerRan /\ out.raised = "" =>
        \A t \in 1..NT(ds), c \in FieldVals \ {NaN} :
            UniformAt(t, c) => Close(At(out.value, t), c)

\* C25: calc_ecs and calc_and_plot_ecs agree on the same tas and imbalance
\* series: they select the same observations, fit the same slope and
\* intercept, raise alike and produce the same ECS value.
C25_EstimatorsAgree ==
    PlotRan =>
        /\ ecs_plot.raised = ecs.raised
        /\ ecs_plot.x = ecs.x
        /\ ecs_plot.y = ecs.y
        /\ ecs_plot.a = ecs.a
        /\ ecs_plot.b = ecs.b
        /\ ecs_plot.value = ecs.value

\* both ran on series with a missing year and gave the same finite,
\* non-integer estimate
C25_Witness ==
    /\ PlotRan
    /\ \E i \in DOMAIN tas : IsNaN(tas[i]) /\ IsNaN(imbalance[i])
    /\ ecs.raised = ""
    /\ IsFinite(ecs.value)
    /\ ecs.value[2] > 1
    /\ ecs_plot.value = ecs.value
    /\ Len(ecs_plot.x) = 2

(***************************************************************************)
(* Further properties of the pipeline over the models.                     *)
(***************************************************************************)
\* the pass of the loop for model k went beyond the test for None
YearAssigned(k) ==
    /\ pc # "idle"
    /\ k \notin todo \/ pc = "failed"
    /\ ~any_none(dsets_[k])
    /\ \A e \in Range(expts) : "year" \in DOMAIN dsets_[k][e].ds.coords

\* C26: the year coordinate of every experiment dataset of every model the
\* loop took up is the calendar year of the time step minus the calendar
\* year of the first time step of that same dataset: it starts at 0,
\* never decreases along time and does not depend on the start of the other
\* experiment.  Every model that passed the test for None has it.
C26_YearFromOwnStart ==
    /\ \A k \in DOMAIN dsets_ :
          k \notin todo /\ ~any_none(dsets_[k]) => YearAssigned(k)
    /\ \A k \in DOMAIN dsets_ :
          YearAssigned(k) =>
             \A e \in Range(expts) :
                LET d == dsets_[k][e].ds
                    y == d.coords["year"].vals
                IN  /\ DOMAIN y = DOMAIN d.time
                    /\ \A t \in DOMAIN y : y[t] = d.time[t] - d.time[1]
                    /\ y[1] = 0
                    /\ \A t \in DOMAIN y : t > 1 => y[t - 1] <= y[t]

\* a model whose two runs start in different calendar years and last more
\* than a year has year 0 at the start of both and year 1 later
C26_Witness ==
    /\ pc = "compute"
    /\ \E k \in DOMAIN dsets_ :
          /\ YearAssigned(k)
          /\ dsets_[k]["piControl"].ds.time[1]
                # dsets_[k]["abrupt-2xCO2"].ds.time[1]
          /\ \A e \in Range(expts) :
                LET y == dsets_[k][e].ds.coords["year"].vals
                IN  y[1] = 0 /\ y[Len(y)] >= 1

\* the concatenation of the experiments of model k has been carried out
AlignRan(k) == k \in DOMAIN work /\ work[k].stage = "aligned"

\* C27: the aligned dataset of a model has exactly the year axis of its
\* abrupt-forcing run (the last entry of expts) and the values of that run
\* unchanged; the piControl branch holds the control value at every year the
\* control run has too and a missing value at the abrupt years it does not
\* have, and control years outside the abrupt axis are not in the result.
C27_AlignedWithAbrupt ==
    \A k \in ModelIds :
        AlignRan(k) =>
            LET abrupt  == AnnualOf(k, expts[Len(expts)])
                control == AnnualOf(k, "piControl")
                val     == work[k].val
            IN  /\ val.year = abrupt.year
                /\ \A v \in VarNames :
                      /\ val.data[expts[Len(expts)]][v] = abrupt.vars[v]
                      /\ DOMAIN val.data["piControl"][v] = DOMAIN abrupt.year
                      /\ \A i \in DOMAIN abrupt.year :
                            LET g == PosOf(control.year, abrupt.year[i])
                            IN  val.data["piControl"][v][i] =
                                  IF g = 0 THEN NaN ELSE control.vars[v][g]

\* one model lost control years beyond its abrupt run, another has abrupt
\* years its control run lacks, missing in the piControl branch
C27_Witness ==
    /\ \E k \in ModelIds :
          /\ AlignRan(k)
          /\ \E g \in DOMAIN AnnualOf(k, "piControl").year :
                /\ PosOf(work[k].val.year, AnnualOf(k, "piControl").year[g]) = 0
                /\ NotNaN(AnnualOf(k, "piControl").vars["tas"][g])
    /\ \E k \in ModelIds :
          /\ AlignRan(k)
          /\ \E i \in DOMAIN work[k].val.year :
                /\ PosOf(AnnualOf(k, "piControl").year, work[k].val.year[i]) = 0
                /\ IsNaN(work[k].val.data["piControl"]["tas"][i])
                /\ NotNaN(work[k].val.data["abrupt-2xCO2"]["tas"][i])

\* big_ds holds the imbalance
ImbalanceRan == pc \in {"window", "estimate", "done"}

\* C28: at every (model, experiment, year) of big_ds the imbalance is the
\* incoming minus the outgoing fluxes, rsdt - rsut - rlut (computed left to
\* right in floating point, within tolerance of the exact difference), and
\* it is missing whenever one of the three fluxes is missing.
C28_ImbalanceIsNetFlux ==
    ImbalanceRan =>
        \A k \in Range(big_ds.source_id), e \in Range(expts),
           i \in DOMAIN big_ds.year :
            LET d    == big_ds.data[k][e]
                rsdt == d["rsdt"][i]
                rsut == d["rsut"][i]
                rlut == d["rlut"][i]
            IN  /\ d["imbalance"][i] = FSub(FSub(rsdt, rsut), rlut)
                /\ IsNaN(rsdt) \/ IsNaN(rsut) \/ IsNaN(rlut)
                      => IsNaN(d["imbalance"][i])
                /\ NotNaN(rsdt) /\ NotNaN(rsut) /\ NotNaN(rlut)
                      => Close(d["imbalance"][i],
                               RSub(RSub(rsdt, rsut), rlut))

\* a model with a year at which one flux alone is missing, and with it the
\* imbalance, and a year with three different fluxes and their net
C28_Witness ==
    /\ ImbalanceRan
    /\ \E k \in Range(big_ds.source_id), i, j \in DOMAIN big_ds.year :
          LET d == big_ds.data[k]["abrupt-2xCO2"]
          IN  /\ IsNaN(d["rsut"][i])
              /\ NotNaN(d["rsdt"][i])
              /\ NotNaN(d["rlut"][i])
              /\ IsNaN(d["imbalance"][i])
              /\ IsFinite(d["imbalance"][j])
              /\ d["rsut"][j] # R(0)
              /\ d["rlut"][j] # R(0) \/ d["rsdt"][j] # d["rsut"][j]

\* C30: in ds_abrupt, the data passed to the estimator, missingness is
\* paired: for every model and every year of the window the tas anomaly is
\* missing exactly when the imbalance anomaly is missing, so that the two
\* sequences handed to the line fit have the same length once the missing
\* values are dropped.
C30_MissingnessPaired ==
    WindowRan =>
        \A k \in Range(ds_abrupt.source_id) :
            /\ \A i \in DOMAIN ds_abrupt.year :
                  IsNaN(ds_abrupt.data[k]["tas"][i])
                     <=> IsNaN(ds_abrupt.data[k]["imbalance"][i])
            /\ Len(dropna(ds_abrupt.data[k]["tas"]))
                  = Len(dropna(ds_abrupt.data[k]["imbalance"]))

\* the stages of the task of a model, in the order of the data flow
StageRank(s) ==
    CASE s = "none" -> 0
      [] s = "delayed" -> 1
      [] s = "reduced" -> 2
      [] s = "aligned" -> 3

\* the cells of the notebook, in the order of the data flow ("failed": the
\* notebook stopped)
PcRank(p) ==
    CASE p = "idle" -> 0
      [] p = "loop" -> 0
      [] p = "compute" -> 1
      [] p = "concat" -> 2
      [] p = "anomaly" -> 3
      [] p = "window" -> 4
      [] p = "estimate" -> 5
      [] p = "done" -> 6
      [] p = "failed" -> 7

GroupRan == pc \notin {"idle", "group"}

\* the rows of the subset that belong to model k and experiment e
RowsOfPair(k, e) ==
    {i \in DOMAIN col_subset :
        col_subset[i].source_id = k /\ col_subset[i].experiment_id = e}

\* C21: after the grouping loop, dsets maps every model of the catalog
\* subset to its experiments and each of these to one delayed
\* open_dsets(df): every (source_id, experiment_id) pair with a row in the
\* subset has its entry, the df of the entry holds exactly the rows of that
\* pair (each of them once), and there is no entry for a pair without rows.
C21_TwoLevelMapping ==
    GroupRan =>
        /\ \A i \in DOMAIN col_subset :
              /\ col_subset[i].source_id \in DOMAIN dsets
              /\ col_subset[i].experiment_id
                    \in DOMAIN dsets[col_subset[i].source_id]
        /\ \A k \in DOMAIN dsets :
              \A e \in DOMAIN dsets[k] :
                 LET df == dsets[k][e].args
                 IN  /\ RowsOfPair(k, e) # {}
                     /\ dsets[k][e].func = "open_dsets"
                     /\ Len(df) = Cardinality(RowsOfPair(k, e))
                     /\ \A i \in RowsOfPair(k, e) :
                           \E j \in DOMAIN df : df[j] = col_subset[i]
                     /\ \A j \in DOMAIN df :
                           \E i \in RowsOfPair(k, e) : df[j] = col_subset[i]

\* a subset with model A alone: both experiments of A have an entry with
\* the four rows of the pair, and model B has none
C21_Witness ==
    /\ GroupRan
    /\ DOMAIN dsets = {"A"}
    /\ DOMAIN dsets["A"] = Range(expts)
    /\ \A e \in Range(expts) :
          {dsets["A"][e].args[j].variable_id :
              j \in DOMAIN dsets["A"][e].args} = VarNames
    /\ Len(dsets["A"]["piControl"].args) = 4

\* the datasets that open_dsets merges for the group g: what the zstores
\* of its rows hold, without the bounds coordinates
OpenedList(g) ==
    LET df == dsets[g[1]][g[2]].args
    IN  [i \in DOMAIN df |-> drop_all_bounds(zarr[df[i].zstore])]

\* the datasets of a list share exactly the same coordinates
SameCoordinates(list) ==
    \A i, j \in DOMAIN list :
        /\ list[i].dims = list[j].dims
        /\ list[i].time = list[j].time
        /\ list[i].coords = list[j].coords

\* the merge with join='exact' of a list fails
ExactJoinFails(list) ==
    \E i, j \in DOMAIN list : ~Mergeable(list[i], list[j])

\* the first dask.compute has returned
OpenRan == pc \notin {"idle", "group", "show", "open"} /\ DOMAIN dsets_ # {}

\* the alignment loop has looked at model k
Visited(k) == OpenRan /\ k \in DOMAIN dsets_ /\ k \notin todo

\* C29: open_dsets returns the merged dataset, with every variable of the
\* group on the common coordinates, when the datasets of the group share
\* exactly the same coordinates, and None when the merge with join='exact'
\* fails; it raises nothing.  After the first compute every entry of dsets_
\* is a dataset or None, and the alignment loop skips exactly the models
\* that have an entry None, printing a line for each of them.
C29_MergedOrNone ==
    /\ \A g \in DOMAIN tasks :
          tasks[g].done =>
             LET list == OpenedList(g)
                 df   == dsets[g[1]][g[2]].args
                 r    == tasks[g].value
             IN  /\ SameCoordinates(list) =>
                       /\ ~r.none
                       /\ r.ds.coords = list[1].coords
                       /\ r.ds.time = list[1].time
                       /\ DOMAIN r.ds.vars
                             = {df[i].variable_id : i \in DOMAIN df}
                       /\ \A i \in DOMAIN df :
                             r.ds.vars[df[i].variable_id]
                                = list[i].vars[df[i].variable_id]
                 /\ ExactJoinFails(list) => r = None
                 /\ r = None \/ ~r.none
    /\ pc \in {"show", "open", "loop"} => error = ""
    /\ OpenRan =>
          /\ DOMAIN dsets_ = DOMAIN dsets
          /\ \A k \in DOMAIN dsets_ :
                /\ DOMAIN dsets_[k] = DOMAIN dsets[k]
                /\ \A e \in DOMAIN dsets_[k] :
                      dsets_[k][e] = None \/ ~dsets_[k][e].none
    /\ \A k \in ModelIds :
          Visited(k) =>
             /\ k \in Range(dsets_aligned)
                   <=> \A e \in DOMAIN dsets_[k] : dsets_[k][e] # None
             /\ (\E i \in DOMAIN stdout :
                     stdout[i] = <<"Missing experiment for", k>>)
                   <=> \E e \in DOMAIN dsets_[k] : dsets_[k][e] = None

\* the loop has visited a model whose group failed to merge, which it
\* skipped, and a model with both datasets merged, which it kept
C29_Witness ==
    /\ pc = "compute"
    /\ \E k \in ModelIds :
          /\ Visited(k)
          /\ \E e \in Range(expts) :
                /\ dsets_[k][e] = None
                /\ ExactJoinFails(OpenedList(<<k, e>>))
          /\ k \notin Range(dsets_aligned)
    /\ \E k \in ModelIds :
          /\ Visited(k)
          /\ \A e \in Range(expts) :
                /\ ~dsets_[k][e].none
                /\ SameCoordinates(OpenedList(<<k, e>>))
          /\ k \in Range(dsets_aligned)

\* what laziness asks of every step apart from the opening of zstores:
\* the grouping loop runs no delayed call and opens nothing, a delayed call
\* runs only inside the first dask.compute, the alignment loop computes no
\* mean, and the means are computed only inside the second dask.compute
LazyStep ==
    /\ pc = "group" =>
          /\ opened' = opened
          /\ \A g \in DOMAIN tasks' : ~tasks'[g].done
    /\ \A g \in DOMAIN tasks \cap DOMAIN tasks' :
          tasks'[g] # tasks[g] => pc = "open"
    /\ pc = "loop" =>
          \A k \in DOMAIN work' :
              work'[k].red = NoWork.red /\ work'[k].val = NoAligned
    /\ \A k \in DOMAIN work :
          work'[k].red # work[k].red \/ work'[k].val # work[k].val
             => pc = "compute"

\* when a dask.compute has returned, every entry that was asked for holds
\* its result: a dataset or None in dsets_, annual means in dsets_aligned_
Materialized ==
    /\ OpenRan =>
          /\ \A g \in DOMAIN tasks : tasks[g].done
          /\ \A k \in DOMAIN dsets :
                \A e \in DOMAIN dsets[k] :
                    \/ dsets_[k][e] = None
                    \/ ~dsets_[k][e].none /\ dsets_[k][e].ds.time # <<>>
    /\ pc = "concat" =>
          /\ DOMAIN dsets_aligned_ = Range(dsets_aligned)
          /\ \A k \in DOMAIN dsets_aligned_ :
                /\ dsets_aligned_[k] = work[k].val
                /\ dsets_aligned_[k].year # <<>>

====
